---- MODULE Spec2Model ----
(***************************************************************************)
(* The phase execution engine of markdown-agent: ChatRunner.run, its       *)
(* round loop, tool execution, context purges and structured-response      *)
(* validation (src/src/runner/ChatRunner.ts), driven by runMultiPhase      *)
(* (src/src/runner/multi-phase.ts).                                        *)
(*                                                                         *)
(* Messages are objects on a heap: the permanent record (messages) and the *)
(* context view (purgedMessages) are arrays of references, so that an      *)
(* object pushed to both arrays is shared, as it is in the source.         *)
(* Texts are sequences of one-character tokens.                            *)
(***************************************************************************)
EXTENDS Naturals, Sequences, FiniteSets, TLC

\* ------------------------------------------------------------------ bounds
\* run calls made on one ChatRunner
MaxPhases == 2
\* run calls made on a ChatRunner whose model is not of the "multi" kind
SoloPhases == 1
\* run calls made on a ChatRunner whose model is of the "chain" kind
ChainPhases == 3
\* fragments a stream delivers before it ends
MaxChunks == 2
\* rounds of a phase in which the model may request tools (free model)
FreeRounds == 1
\* content tokens a model produces in one phase
MaxContent == 2
\* tokens of the arguments text of a scripted ToolCall
MaxArgs == 3
\* fragments a scripted ToolCall is delivered in
MaxPieces == 3
\* characters of the path handed to load_file
MaxPath == 6
\* exchanges (a user message, an assistant message, a tool round) in a context
\* view handed to the purge methods
MaxBlocks == 3

\* ------------------------------------------------------- program constants
maxRounds == 30

\* ------------------------------------------------------------------ state
VARIABLES
    env,                     \* kind of the model: "multi", "frag", "long", "chain"
                             \* ("split", "retry" in SplitSpec, RetrySpec)
    heap,                    \* the message objects
    messages,                \* this.messages: references into heap
    purgedMessages,          \* this.purgedMessages: references into heap
    notifiedToolCallIds,     \* this.notifiedToolCallIds
    pc,                      \* position of run
    phase,                   \* the Phase passed to run
    phaseNo,                 \* run calls started so far
    startMessageCount,       \* local of run
    startPurgedMessageCount, \* local of run
    content,                 \* local of run
    round,                   \* local of run
    toolCalls,               \* local of the round
    toolIdx,                 \* position of the for..of loop over toolCalls
    chunks,                  \* fragments the current stream has delivered
    modelCalls,              \* chat.completions.create calls of this phase
    producing,               \* did this round's stream carry content or tool calls
    producingRounds,         \* finished rounds of this phase whose stream did
    outcome,                 \* how the last run call ended
    onToolCall,              \* calls of config.onToolCall in this round
    onToolResponse,          \* calls of config.onToolResponse in this round
    onPhaseEnd,              \* calls of config.onPhaseEnd: the sequences passed
    returned,                \* values the successful run calls returned, in order
    runMultiPhase,           \* the runMultiPhase call driving the runner, if any
    executing,               \* ToolCalls (positions in toolCalls) whose executeTool call run awaits
    request,                 \* the arguments of the last chat.completions.create call
    attempt,                 \* local of executeToolWithRetry: the attempt being made
    call,                    \* the ToolCall being executed with retry: execute calls, how the last ended, record length at its start
    received,                \* the fragments the current stream has delivered
    onContentChunk,          \* calls of config.onContentChunk in this round
    onThinkingChunk,         \* calls of config.onThinkingChunk in this round
    loadFile,                \* the load_file tool: its input, what it read, how execute ended
    stream                   \* a scripted stream: its ToolCall, the deltas to come

vars == <<env, loadFile, onThinkingChunk, onContentChunk, received, call, attempt, request, executing, runMultiPhase, returned, onPhaseEnd, heap, messages, purgedMessages, notifiedToolCallIds, pc, phase,
          phaseNo, startMessageCount, startPurgedMessageCount, content, round,
          toolCalls, toolIdx, chunks, modelCalls, producing, producingRounds,
          outcome, onToolCall, onToolResponse, stream>>

\* ------------------------------------------------------------------ values
\* A field that is absent (undefined) on a message.
Absent == "undefined"

\* An array slot never assigned (a hole of a sparse array).
Hole == [hole |-> TRUE]

\* A message object. The fields phase and round are not fields of the source
\* object: they record the run call and the round that created it.
Message(role, text, tcs, tcid, name, ph, rnd) ==
    [role |-> role, content |-> text, tool_calls |-> tcs,
     tool_call_id |-> tcid, name |-> name, phase |-> ph, round |-> rnd]

ToolCall(id, name, arguments) ==
    [id |-> id, name |-> name, arguments |-> arguments]

\* The messages a sequence of references denotes.
Deref(h, refs) == [i \in 1..Len(refs) |-> h[refs[i]]]

\* Array.prototype.slice(start): the elements from 0-based index start on.
Slice(s, start) == SubSeq(s, start + 1, Len(s))

\* Array.prototype.splice(i, 1) for the 1-based position i.
Splice(s, i) == SubSeq(s, 1, i - 1) \o SubSeq(s, i + 1, Len(s))

\* ------------------------------------------------------------ JSON texts
\* Texts are over the alphabet { "1", " ", "{", "}" }; the JSON texts over it
\* are the numbers 1, 11, ... and the empty object, with surrounding blanks.
IsDigits(s) == Len(s) > 0 /\ \A i \in 1..Len(s) : s[i] = "1"

IsBlank(s) == \A i \in 1..Len(s) : s[i] = " "

RECURSIVE TrimLeft(_)
TrimLeft(s) ==
    IF s # <<>> /\ Head(s) = " " THEN TrimLeft(Tail(s)) ELSE s

RECURSIVE TrimRight(_)
TrimRight(s) ==
    IF s # <<>> /\ s[Len(s)] = " " THEN TrimRight(SubSeq(s, 1, Len(s) - 1)) ELSE s

Trim(s) == TrimRight(TrimLeft(s))

IsEmptyObject(s) ==
    /\ Len(s) >= 2
    /\ s[1] = "{"
    /\ s[Len(s)] = "}"
    /\ IsBlank(SubSeq(s, 2, Len(s) - 1))

\* JSON.parse succeeds.
JSONParses(s) == IsDigits(Trim(s)) \/ IsEmptyObject(Trim(s))

\* A serialization that gives back the text that was parsed.
JSONCanonicalAsIs(s) == s

\* JSON.stringify(JSON.parse(s)), for a text that parses.
JSONCanonical(s) == IF IsDigits(Trim(s)) THEN Trim(s) ELSE <<"{", "}">>

\* phase.responseSchema.parse(JSON.parse(s)) succeeds; the schema is
\* z.literal(1).
SchemaAccepts(schema, s) == schema = "literal1" /\ Trim(s) = <<"1">>

\* z.toJSONSchema(schema) returns: a schema such as z.date() has no JSON
\* Schema representation, and the conversion throws.
Representable(schema) == schema # "date"

\* ------------------------------------------------------------ tools
\* Object.values(config.tools): the system-wide tool set.
ConfigTools == {"load"}

\* The tool sets a phase may bring along: none, or the one tool "nope", which
\* is not in the system-wide set. Only the phases of a "frag" model have tools
\* of their own.
PhaseTools(e) == IF e = "frag" THEN {{}, {"nope"}} ELSE {{}}

\* Tools of run that add the phase tools to the system-wide ones.
ActiveToolsMerged(ph) == ph.tools \cup ConfigTools

\* The tools of run: phase tools when there are any, else the system-wide ones.
ActiveTools(ph) == IF ph.tools # {} THEN ph.tools ELSE ConfigTools

ToolResultText == <<"r">>

\* The value tool.execute resolves with, when it ends with `ends`.
ToolValue(ends) ==
    CASE ends = "string" -> [type |-> "string", text |-> ToolResultText]
      [] ends = "number" -> [type |-> "number", text |-> <<"1">>]
      [] OTHER -> [type |-> "cyclic", text |-> <<>>]

\* JSON.stringify(v) returns (it throws a TypeError for a cyclic object).
Serializable(v) == v.type # "cyclic"

\* JSON.stringify(v), for a value it serializes.
JSONStringify(v) ==
    IF v.type = "string" THEN <<"\"">> \o v.text \o <<"\"">> ELSE v.text

\* typeof result === "string" ? result : JSON.stringify(result)
ResultContent(v) == IF v.type = "string" THEN v.text ELSE JSONStringify(v)

\* The diagnostic of a failed tool call (retryMsg, and the message content).
RetryMsg(cause) ==
    <<"Tool execution failed: ", cause,
      ". Please retry this tool call with corrected parameters.">>

ErrorContent(cause) == <<"Error: ">> \o RetryMsg(cause)

\* ------------------------------------------------------------ context purges
\* A loop body that deletes tool_calls from the message object itself.
purgeStepInPlace(s) ==
    LET message == s.heap[s.purgedMessages[s.i]]
    IN  IF message.role = "tool"
          THEN [s EXCEPT !.purgedMessages = Splice(s.purgedMessages, s.i),
                         !.i = s.i - 1]
          ELSE IF message.role = "assistant" /\ message.tool_calls # <<>>
            THEN [s EXCEPT !.heap[s.purgedMessages[s.i]].tool_calls = <<>>,
                           !.i = s.i - 1]
            ELSE [s EXCEPT !.i = s.i - 1]

\* A loop body that replaces every assistant message by a copy.
purgeStepCopying(s) ==
    LET message == s.heap[s.purgedMessages[s.i]]
    IN  IF message.role = "tool"
          THEN [s EXCEPT !.purgedMessages = Splice(s.purgedMessages, s.i),
                         !.i = s.i - 1]
          ELSE IF message.role = "assistant"
            THEN [s EXCEPT !.heap = Append(s.heap, [message EXCEPT !.tool_calls = <<>>]),
                           !.purgedMessages[s.i] = Len(s.heap) + 1,
                           !.i = s.i - 1]
            ELSE [s EXCEPT !.i = s.i - 1]

\* The body of the loop of purgeToolCallsFromPhase and purgeAllToolCalls, on
\* s = [heap, purgedMessages, i] with i the 1-based position of the iteration:
\* a tool message is spliced out of the context view; an assistant message
\* with tool_calls is replaced, in the context view, by a copy without them.
purgeStep(s) ==
    LET message == s.heap[s.purgedMessages[s.i]]
    IN  IF message.role = "tool"
          THEN [s EXCEPT !.purgedMessages = Splice(s.purgedMessages, s.i),
                         !.i = s.i - 1]
          ELSE IF message.role = "assistant" /\ message.tool_calls # <<>>
            THEN [s EXCEPT !.heap = Append(s.heap, [message EXCEPT !.tool_calls = <<>>]),
                           !.purgedMessages[s.i] = Len(s.heap) + 1,
                           !.i = s.i - 1]
            ELSE [s EXCEPT !.i = s.i - 1]

\* for (i = length - 1; i >= start; i--), down to the 1-based position lo.
\* (The state of an iteration is evaluated once, as the element of a singleton
\* set.)
RECURSIVE purgeLoop(_, _)
purgeLoop(st, lo) ==
    CHOOSE r \in { IF s.i < lo THEN s ELSE purgeLoop(purgeStep(s), lo) : s \in {st} } :
      TRUE

\* A purge that counts forwards: after a splice the next message is skipped.
RECURSIVE purgeLoopForward(_)
purgeLoopForward(st) ==
    CHOOSE r \in { IF s.i > Len(s.purgedMessages) THEN s
                   ELSE purgeLoopForward([purgeStep(s) EXCEPT !.i = s.i + 1]) :
                   s \in {st} } :
      TRUE

purgeAllToolCallsForward(h, pm) ==
    LET r == purgeLoopForward([heap |-> h, purgedMessages |-> pm, i |-> 1])
    IN  [heap |-> r.heap, purgedMessages |-> r.purgedMessages]

purgeAllToolCalls(h, pm) ==
    LET r == purgeLoop([heap |-> h, purgedMessages |-> pm, i |-> Len(pm)], 1)
    IN  [heap |-> r.heap, purgedMessages |-> r.purgedMessages]

\* A purge that forgets where the phase began.
purgeToolCallsFromStart(h, pm, start) == purgeAllToolCalls(h, pm)

purgeToolCallsFromPhase(h, pm, start) ==
    LET r == purgeLoop([heap |-> h, purgedMessages |-> pm, i |-> Len(pm)], start + 1)
    IN  [heap |-> r.heap, purgedMessages |-> r.purgedMessages]

\* phase.purge?.includes(directive)
Includes(ph, directive) == directive \in ph.purge

\* Directives tested in an else-if chain: the first one declared is the only
\* one applied.
ApplyPurgeExclusive(h, pm, ph, start) ==
    IF Includes(ph, "tool-calls") THEN purgeToolCallsFromPhase(h, pm, start)
    ELSE IF Includes(ph, "all-tool-calls") THEN purgeAllToolCalls(h, pm)
    ELSE IF Includes(ph, "previous-messages")
      THEN [heap |-> h, purgedMessages |-> Slice(pm, start)]
      ELSE [heap |-> h, purgedMessages |-> pm]

\* Lines 344-354 of run: the three directives, in the order the code tests them.
ApplyPurge(h, pm, ph, start) ==
    LET a == IF Includes(ph, "tool-calls")
               THEN purgeToolCallsFromPhase(h, pm, start)
               ELSE [heap |-> h, purgedMessages |-> pm]
        b == IF Includes(ph, "all-tool-calls")
               THEN purgeAllToolCalls(a.heap, a.purgedMessages)
               ELSE a
    IN  IF Includes(ph, "previous-messages")
          THEN [heap |-> b.heap, purgedMessages |-> Slice(b.purgedMessages, start)]
          ELSE b

\* ------------------------------------------------- tool-call accumulation
EmptyToolCall == ToolCall("", "", <<>>)

\* A merge that assigns the arguments text of the delta instead of appending
\* it.
applyDeltaAssign(tcs, d) ==
    LET pos  == d.index + 1
        ext  == IF Len(tcs) >= pos THEN tcs
                ELSE tcs \o [k \in 1..(pos - Len(tcs)) |-> Hole]
        slot == IF ext[pos] = Hole THEN EmptyToolCall ELSE ext[pos]
    IN  [ext EXCEPT ![pos] =
            ToolCall(IF d.id # "" THEN d.id ELSE slot.id,
                     IF d.name # "" THEN d.name ELSE slot.name,
                     IF d.arguments # <<>> THEN d.arguments ELSE slot.arguments)]

\* One toolCallDelta merged into the accumulated toolCalls array (lines
\* 271-286). Writing past the end of the array leaves holes before the slot.
applyDelta(tcs, d) ==
    LET pos  == d.index + 1
        ext  == IF Len(tcs) >= pos THEN tcs
                ELSE tcs \o [k \in 1..(pos - Len(tcs)) |-> Hole]
        slot == IF ext[pos] = Hole THEN EmptyToolCall ELSE ext[pos]
    IN  [ext EXCEPT ![pos] =
            ToolCall(IF d.id # "" THEN d.id ELSE slot.id,
                     IF d.name # "" THEN d.name ELSE slot.name,
                     slot.arguments \o d.arguments)]

RECURSIVE applyDeltas(_, _)
applyDeltas(tcs, ds) ==
    IF ds = <<>> THEN tcs ELSE applyDeltas(applyDelta(tcs, Head(ds)), Tail(ds))

\* for (const toolCall of toolCalls) of lines 290-295 from position i on:
\* the ids notified, and whether reading toolCall.id of a hole threw.
RECURSIVE notifyLoop(_, _, _)
notifyLoop(tcs, i, notified) ==
    IF i > Len(tcs)
      THEN [notified |-> notified, threw |-> FALSE]
      ELSE IF tcs[i] = Hole
        THEN [notified |-> notified, threw |-> TRUE]
        ELSE notifyLoop(tcs, i + 1,
                        IF tcs[i].id # "" THEN notified \cup {tcs[i].id} ELSE notified)

\* A loop that does not look at the ids already notified.
RECURSIVE notificationsEveryFragment(_, _, _, _)
notificationsEveryFragment(tcs, i, notified, n) ==
    IF i > Len(tcs) \/ tcs[i] = Hole
      THEN <<>>
      ELSE IF tcs[i].id # ""
        THEN <<[index |-> i - 1, id |-> tcs[i].id, fragment |-> n]>>
               \o notificationsEveryFragment(tcs, i + 1, notified, n)
        ELSE notificationsEveryFragment(tcs, i + 1, notified, n)

\* The calls of config.onToolCall that loop makes (lines 291-294), up to the
\* hole that ends it: the 0-based index and the id of the ToolCall passed, and
\* the number n of the fragment that is being processed.
RECURSIVE notifications(_, _, _, _)
notifications(tcs, i, notified, n) ==
    IF i > Len(tcs) \/ tcs[i] = Hole
      THEN <<>>
      ELSE IF tcs[i].id # "" /\ tcs[i].id \notin notified
        THEN <<[index |-> i - 1, id |-> tcs[i].id, fragment |-> n]>>
               \o notifications(tcs, i + 1, notified \cup {tcs[i].id}, n)
        ELSE notifications(tcs, i + 1, notified, n)

\* ------------------------------------------------------------ the model's streams
\* A tool-call delta that opens the call at index i, and one that continues it.
First(i, name, arguments) ==
    [index |-> i, id |-> IF i = 0 THEN "c0" ELSE "c1", name |-> name,
     arguments |-> arguments]

Cont(i, arguments) == [index |-> i, id |-> "", name |-> "", arguments |-> arguments]

Chunk(text, deltas) ==
    [content |-> text, reasoning |-> <<>>, tool_calls |-> deltas]

\* A fragment with a reasoning delta, and possibly a content delta with it.
Thinking(text) == [content |-> text, reasoning |-> <<"t">>, tool_calls |-> <<>>]

\* Whole tool calls, as a model that does not fragment them sends them.
Load0 == First(0, "load", <<"{", "}">>)

Load1 == First(1, "load", <<"{", "}">>)

\* delta.tool_calls of the fragments a fragmenting model sends.
FragDeltas ==
    { <<Load0>>,
      <<First(0, "load", <<"{">>)>>,
      <<Cont(0, <<"}">>)>>,
      <<First(0, "nope", <<"{", "}">>)>>,
      <<Load0, Load1>>,
      <<Load1>> }

\* delta.content of the fragments a model sends.
Contents == { <<"1">>, <<" ">> }

\* The fragments the stream of round r may deliver next, after n fragments,
\* when the phase's content so far is text. The model is of one of four kinds:
\*   "multi": the whole response of a round comes in one fragment;
\*   "frag":  a response comes in up to MaxChunks fragments, tool calls in
\*            pieces, possibly with unknown tool names or skipped indices,
\*            and the first fragment may carry reasoning text;
\*   "long":  one fragment per round, one whole tool call or a text;
\*   "chain": one fragment per round, two whole tool calls or the text "1".
\* A "multi", "frag" or "chain" model requests tools in the first FreeRounds
\* rounds of a phase only and produces at most MaxContent content tokens in a
\* phase.
Chunks(e, r, text, n) ==
    LET cs == IF Len(text) < MaxContent THEN Contents ELSE {}
    IN  CASE e = "long" ->
               IF n > 0 THEN {}
               ELSE { Chunk(<<>>, <<Load0>>), Chunk(<<"1">>, <<>>) }
          [] e = "chain" ->
               IF n > 0 THEN {}
               ELSE (IF cs # {} THEN { Chunk(<<"1">>, <<>>) } ELSE {})
                      \cup (IF r <= FreeRounds
                              THEN { Chunk(<<>>, <<Load0, Load1>>) }
                              ELSE {})
          [] e = "multi" ->
               IF n > 0 THEN {}
               ELSE { Chunk(c, <<>>) : c \in cs }
                      \cup (IF r <= FreeRounds
                              THEN { Chunk(<<>>, <<Load0, Load1>>),
                                     Chunk(<<"1">>, <<Load0>>) }
                              ELSE {})
          [] OTHER ->
               IF n >= MaxChunks THEN {}
               ELSE { Chunk(c, <<>>) : c \in cs }
                      \cup (IF n = 0
                              THEN { Thinking(c) : c \in {<<>>} \cup (cs \ {<<" ">>}) }
                              ELSE {})
                      \cup (IF r <= FreeRounds
                              THEN { Chunk(<<>>, d) : d \in FragDeltas }
                              ELSE {})

\* How tool.execute may end: with a string, with a number, with an object that
\* refers to itself, or by throwing. The tools of a "long" or "chain" model's
\* phases return strings; those of a "multi" model's return strings or throw.
ToolEnds(e) ==
    CASE e \in {"long", "chain"} -> {"string"}
      [] e = "multi" -> {"string", "throw"}
      [] OTHER -> {"string", "number", "cyclic", "throw"}

\* run calls made on one ChatRunner.
PhaseLimit(e) ==
    CASE e = "multi" -> MaxPhases
      [] e = "chain" -> ChainPhases
      [] OTHER -> SoloPhases

\* ------------------------------------------------- a ToolCall in fragments
\* The tokens of arguments texts.
ArgTokens == {"{", "}", "1"}

\* The texts of at most n tokens.
TextsUpTo(n) == UNION { [1..k -> ArgTokens] : k \in 0..n }

\* The ways to cut text into k consecutive pieces, some possibly empty: piece j
\* runs from after cut j-1 to cut j.
Pieces(text, k) ==
    LET Cuts == { c \in [0..k -> 0..Len(text)] :
                    /\ c[0] = 0
                    /\ c[k] = Len(text)
                    /\ \A j \in 1..k : c[j - 1] <= c[j] }
    IN  { [j \in 1..k |-> SubSeq(text, c[j - 1] + 1, c[j])] : c \in Cuts }

\* The deltas that deliver the ToolCall (id, name, text) on index i in the
\* given pieces: the first carries the id and the name.
Deltas(i, id, name, pieces) ==
    [j \in 1..Len(pieces) |->
       IF j = 1
         THEN [index |-> i, id |-> id, name |-> name, arguments |-> pieces[1]]
         ELSE Cont(i, pieces[j])]

\* No scripted stream.
NoStream == [index |-> 0, call |-> EmptyToolCall, rest |-> <<>>]

\* ------------------------------------------------------------ phases
Purges == {"tool-calls", "all-tool-calls", "previous-messages"}

\* No response schema, z.literal(1), z.date().
Schemas == {Absent, "literal1", "date"}

Phase(n, purge, schema, tools) ==
    [name |-> n, purge |-> purge, responseSchema |-> schema, tools |-> tools]

\* How a run call ended. For a rejection, text, n, cause and phases are the parts
\* of the error message: its fixed text, the number it embeds, the cause it
\* quotes and the phase names it embeds.
NoOutcome ==
    [status |-> "none", text |-> "", n |-> 0, cause |-> "", phases |-> {},
     value |-> <<>>]

\* The arguments of a create call (lines 240-247) for the tools of run: the
\* tool definitions carry the names of the tools; without any, tools is
\* undefined, which the empty set stands for.
CreateArguments(tools) == [made |-> TRUE, tools |-> tools]

\* No create call has been made.
NoRequest == [made |-> FALSE, tools |-> {}]

\* executeToolWithRetry is not used, or has not been called.
NoCall == [invoked |-> 0, last |-> "none", start |-> 0]

\* runMultiPhase has not been called: run is called on the runner directly.
NotDriven == [status |-> "none", value |-> <<>>]

\* runMultiPhase has been called with the runner and is in its loop over the phases.
Driving == [status |-> "running", value |-> <<>>]

\* The load_file tool before any call of its execute.
NoLoad == [basePath |-> <<>>, path |-> <<>>, status |-> "none",
           reads |-> <<>>, error |-> ""]

\* ------------------------------------------------------------ run
Init ==
    /\ env \in {"multi", "frag", "long", "chain"}
    /\ heap = <<>>
    /\ messages = <<>>
    /\ purgedMessages = <<>>
    /\ notifiedToolCallIds = {}
    /\ pc = "idle"
    /\ phase = Phase(0, {}, Absent, {})
    /\ phaseNo = 0
    /\ startMessageCount = 0
    /\ startPurgedMessageCount = 0
    /\ content = <<>>
    /\ round = 0
    /\ toolCalls = <<>>
    /\ toolIdx = 0
    /\ chunks = 0
    /\ modelCalls = 0
    /\ producing = FALSE
    /\ producingRounds = 0
    /\ outcome = NoOutcome
    /\ onToolCall = <<>>
    /\ onToolResponse = <<>>
    /\ stream = NoStream
    /\ loadFile = NoLoad
    /\ onThinkingChunk = <<>>
    /\ onContentChunk = <<>>
    /\ received = <<>>
    /\ call = NoCall
    /\ attempt = 0
    /\ request = NoRequest
    /\ executing = {}
    /\ runMultiPhase = IF env = "chain" THEN Driving ELSE NotDriven
    /\ returned = <<>>
    /\ onPhaseEnd = <<>>

\* A push that forgets the permanent record.
PushContextOnly(h, ms, pm, m) ==
    [heap |-> Append(h, m), messages |-> ms, purgedMessages |-> Append(pm, Len(h) + 1)]

\* push of one object onto both arrays
PushBoth(h, ms, pm, m) ==
    [heap |-> Append(h, m),
     messages |-> Append(ms, Len(h) + 1),
     purgedMessages |-> Append(pm, Len(h) + 1)]

\* A throw that leaves run: the promise rejects. Neither message template
\* (lines 334 and 341) has a place for phase.name.
Reject(text, n, cause) ==
    /\ pc' = "idle"
    /\ outcome' = [status |-> "rejected", text |-> text, n |-> n, cause |-> cause,
                   phases |-> {}, value |-> <<>>]

\* `API chat failed in round ${round}: ${cause}` (line 334)
ChatFailed == "API chat failed in round"

\* The error of z.toJSONSchema (line 169), thrown outside the try of the round
\* loop.
SchemaError == "cannot be represented in JSON Schema"

\* `Reached maximum tool execution rounds (${maxRounds})` (line 341)
RoundsReached == "Reached maximum tool execution rounds"

\* A run that adds the system prompt without looking at the record.
IsAnyRun(ms) == TRUE

\* The system prompt is added when the permanent record is empty.
IsFirstRun(ms) == Len(ms) = 0

\* run, lines 155-228: the format prompt is built from the response schema,
\* which throws for a schema that cannot be converted (line 169), before
\* anything is appended or any local of the call is set; otherwise the prompts
\* are appended and the loop is set up.
RunStart(purge, schema, tools) ==
    /\ pc = "idle"
    /\ phaseNo < PhaseLimit(env)
    /\ LET n  == phaseNo + 1
           s  == IF IsFirstRun(messages)
                   THEN PushBoth(heap, messages, purgedMessages,
                                 Message("system", <<"sys">>, <<>>, Absent, Absent, n, 0))
                   ELSE [heap |-> heap, messages |-> messages,
                         purgedMessages |-> purgedMessages]
           u  == PushBoth(s.heap, s.messages, s.purgedMessages,
                          Message("user", <<"prompt">>, <<>>, Absent, Absent, n, 0))
       IN  /\ phaseNo' = n
           /\ phase' = Phase(n, purge, schema, tools)
           /\ IF schema # Absent /\ ~Representable(schema)
                THEN /\ Reject(SchemaError, 0, "")
                     /\ UNCHANGED <<heap, messages, purgedMessages,
                                    startMessageCount, startPurgedMessageCount,
                                    content, round, modelCalls, producingRounds>>
                ELSE /\ startMessageCount' = Len(messages)
                     /\ startPurgedMessageCount' = Len(purgedMessages)
                     /\ heap' = u.heap
                     /\ messages' = u.messages
                     /\ purgedMessages' = u.purgedMessages
                     /\ content' = <<>>
                     /\ round' = 0
                     /\ modelCalls' = 0
                     /\ producingRounds' = 0
                     /\ pc' = "loop"
                     /\ outcome' = NoOutcome
    /\ UNCHANGED <<env, stream, loadFile, onThinkingChunk, onContentChunk, received, call, attempt, request, executing, runMultiPhase, returned, onPhaseEnd, onToolCall, onToolResponse, notifiedToolCallIds, toolCalls, toolIdx, chunks, producing>>

\* A loop condition that admits one round more.
LoopContinuesOneMore(r) == r <= maxRounds

\* while (round < maxRounds)
LoopContinues(r) == r < maxRounds

\* Lines 230-247: a round begins and the model is called.
BeginRound ==
    /\ pc = "loop"
    /\ LoopContinues(round)
    /\ round' = round + 1
    /\ notifiedToolCallIds' = {}
    /\ toolCalls' = <<>>
    /\ chunks' = 0
    /\ producing' = FALSE
    /\ modelCalls' = modelCalls + 1
    /\ request' = CreateArguments(ActiveTools(phase))
    /\ received' = <<>>
    /\ onContentChunk' = <<>>
    /\ onThinkingChunk' = <<>>
    /\ onToolCall' = <<>>
    /\ onToolResponse' = <<>>
    /\ pc' = "stream"
    /\ UNCHANGED <<env, stream, loadFile, call, attempt, executing, runMultiPhase, returned, onPhaseEnd, heap, messages, purgedMessages, phase, phaseNo,
                   startMessageCount, startPurgedMessageCount, content, toolIdx,
                   producingRounds, outcome>>

\* A stream failure after which the purge directives are applied all the same
\* (as from a finally block).
StreamFailPurging ==
    /\ pc = "stream"
    /\ Reject(ChatFailed, round, "stream")
    /\ \E p \in {ApplyPurge(heap, purgedMessages, phase, startPurgedMessageCount)} :
         /\ heap' = p.heap
         /\ purgedMessages' = p.purgedMessages
    /\ UNCHANGED <<env, stream, loadFile, onThinkingChunk, onContentChunk, received, call, attempt, request, executing, runMultiPhase, returned, onPhaseEnd, onToolCall, onToolResponse, messages, notifiedToolCallIds, phase,
                   phaseNo, startMessageCount, startPurgedMessageCount, content,
                   round, toolCalls, toolIdx, chunks, modelCalls, producing,
                   producingRounds>>

\* An append that is made for rounds with tool calls only.
AppendsAssistantForToolCalls(text, tcs) == Len(tcs) > 0

\* if (content || toolCalls.length > 0)
AppendsAssistant(text, tcs) == text # <<>> \/ Len(tcs) > 0

\* A stream failure that still appends what the stream had delivered.
StreamFailKeepsPartial ==
    /\ pc = "stream"
    /\ Reject(ChatFailed, round, "stream")
    /\ IF AppendsAssistant(content, toolCalls)
         THEN LET a == PushBoth(heap, messages, purgedMessages,
                                Message("assistant", content, toolCalls, Absent,
                                        Absent, phaseNo, round))
              IN  /\ heap' = a.heap
                  /\ messages' = a.messages
                  /\ purgedMessages' = a.purgedMessages
         ELSE UNCHANGED <<heap, messages, purgedMessages>>
    /\ UNCHANGED <<env, stream, loadFile, onThinkingChunk, onContentChunk, received, call, attempt, request, executing, runMultiPhase, returned, onPhaseEnd, onToolCall, onToolResponse, notifiedToolCallIds, phase,
                   phaseNo, startMessageCount, startPurgedMessageCount, content,
                   round, toolCalls, toolIdx, chunks, modelCalls, producing,
                   producingRounds>>

\* The stream fails (create or the iteration throws): the catch of line 333
\* rethrows.
StreamFail ==
    /\ pc = "stream"
    /\ Reject(ChatFailed, round, "stream")
    /\ UNCHANGED <<env, stream, loadFile, onThinkingChunk, onContentChunk, received, call, attempt, request, executing, runMultiPhase, returned, onPhaseEnd, onToolCall, onToolResponse, heap, messages, purgedMessages, notifiedToolCallIds, phase,
                   phaseNo, startMessageCount, startPurgedMessageCount, content,
                   round, toolCalls, toolIdx, chunks, modelCalls, producing,
                   producingRounds>>

\* if (delta?.x) this.config.onXChunk(delta.x): an observer is called with a
\* delta that is not empty.
forward(log, text) == IF text # <<>> THEN Append(log, text) ELSE log

\* An accumulation that takes the reasoning text along.
accumulateContentAndReasoning(text, chunk) ==
    text \o chunk.content \o chunk.reasoning

\* content += delta.content (line 261)
accumulateContent(text, chunk) == text \o chunk.content

\* Lines 252-304: one fragment of the stream.
StreamChunk ==
    /\ pc = "stream"
    /\ \E chunk \in Chunks(env, round, content, chunks) :
         LET tcs == applyDeltas(toolCalls, chunk.tool_calls)
             n   == IF chunk.tool_calls # <<>>
                      THEN notifyLoop(tcs, 1, notifiedToolCallIds)
                      ELSE [notified |-> notifiedToolCallIds, threw |-> FALSE]
         IN  /\ received' = Append(received, chunk)
             /\ onContentChunk' = forward(onContentChunk, chunk.content)
             /\ content' = accumulateContent(content, chunk)
             /\ onThinkingChunk' = forward(onThinkingChunk, chunk.reasoning)
             /\ toolCalls' = tcs
             /\ notifiedToolCallIds' = n.notified
             /\ onToolCall' =
                  IF chunk.tool_calls # <<>>
                    THEN onToolCall \o notifications(tcs, 1, notifiedToolCallIds,
                                                     chunks + 1)
                    ELSE onToolCall
             /\ producing' = (producing \/ chunk.content # <<>>
                                \/ chunk.tool_calls # <<>>)
             /\ chunks' = chunks + 1
             /\ IF n.threw
                  THEN Reject(ChatFailed, round, "TypeError")
                  ELSE UNCHANGED <<pc, outcome>>
    /\ UNCHANGED <<env, stream, loadFile, call, attempt, request, executing, runMultiPhase, returned, onPhaseEnd, onToolResponse, heap, messages, purgedMessages, phase, phaseNo,
                   startMessageCount, startPurgedMessageCount, round, toolIdx,
                   modelCalls, producingRounds>>

\* Lines 306-326: the stream has ended.
StreamEnd ==
    /\ pc = "stream"
    /\ IF AppendsAssistant(content, toolCalls)
         THEN LET a == PushBoth(heap, messages, purgedMessages,
                                Message("assistant", content, toolCalls, Absent,
                                        Absent, phaseNo, round))
              IN  /\ heap' = a.heap
                  /\ messages' = a.messages
                  /\ purgedMessages' = a.purgedMessages
         ELSE UNCHANGED <<heap, messages, purgedMessages>>
    /\ producingRounds' = IF producing THEN producingRounds + 1 ELSE producingRounds
    /\ IF Len(toolCalls) = 0
         THEN pc' = "check" /\ toolIdx' = toolIdx
         ELSE pc' = "tools" /\ toolIdx' = 1
    /\ UNCHANGED <<env, stream, loadFile, onThinkingChunk, onContentChunk, received, call, attempt, request, executing, runMultiPhase, returned, onPhaseEnd, onToolCall, onToolResponse, notifiedToolCallIds, phase, phaseNo, startMessageCount,
                   startPurgedMessageCount, content, round, toolCalls, chunks,
                   modelCalls, producing, outcome>>

\* A lookup that finds a tool for every name.
FindToolAny(tools, toolCall) == TRUE

\* tools.find((tool) => tool.name === toolCall.function.name)
FindTool(tools, toolCall) == toolCall.name \in tools

\* The try block of executeTool ended with `result` without a throw.
Succeeded(result) == result \in {"string", "number"}

\* A diagnostic message that does not say which call it answers.
toolMessageAnonymous(toolCall, result, ph, rnd) ==
    Message("tool",
            IF Succeeded(result) THEN ResultContent(ToolValue(result))
            ELSE ErrorContent(result),
            <<>>, IF Succeeded(result) THEN toolCall.id ELSE Absent,
            toolCall.name, ph, rnd)

\* The tool message executeTool builds: the result on success (lines 443-448),
\* the diagnostic when JSON.parse or execute threw (lines 460-465).
toolMessage(toolCall, result, ph, rnd) ==
    Message("tool",
            IF Succeeded(result) THEN ResultContent(ToolValue(result))
            ELSE ErrorContent(result),
            <<>>, toolCall.id, toolCall.name, ph, rnd)

\* A try block that hands the arguments text to execute without parsing it.
TryResultUnparsed(toolCall, ends) == IF ends = "throw" THEN "failed" ELSE ends

\* What the try block of executeTool ends with, for an execute that would end
\* with `ends`: the arguments are parsed first.
TryResult(toolCall, ends) ==
    IF ~JSONParses(toolCall.arguments) THEN "SyntaxError"
    ELSE IF ends = "throw" THEN "failed"
    ELSE IF ~Serializable(ToolValue(ends)) THEN "TypeError"
    ELSE ends

\* The calls of config.onToolResponse executeTool makes: with the result once
\* execute has returned (line 440), with retryMsg in the catch (line 458).
Responses(toolCall, ends) ==
    LET result == TryResult(toolCall, ends)
        diagnostic == [type |-> "string", text |-> RetryMsg(result)]
    IN  IF result \in {"SyntaxError", "failed"} THEN <<diagnostic>>
        ELSE IF result = "TypeError" THEN <<ToolValue(ends), diagnostic>>
        ELSE <<ToolValue(ends)>>

\* A loop that takes the tool calls from the last to the first.
NextToolCallReversed(tcs, i) == tcs[Len(tcs) + 1 - i]

\* for (const toolCall of toolCalls): the element the i-th iteration takes.
NextToolCall(tcs, i) == tcs[i]

\* A loop that calls executeTool without awaiting it.
ToolStartUnawaited ==
    /\ pc = "tools"
    /\ LET toolCall == NextToolCall(toolCalls, toolIdx)
       IN  IF ~FindTool(ActiveTools(phase), toolCall)
             THEN /\ Reject(ChatFailed, round, "Unknown tool")
                  /\ UNCHANGED <<executing, toolIdx>>
             ELSE /\ executing' = executing \cup {toolIdx}
                  /\ toolIdx' = toolIdx + 1
                  /\ pc' = IF toolIdx = Len(toolCalls) THEN "loop" ELSE "tools"
                  /\ outcome' = outcome
    /\ UNCHANGED <<env, stream, loadFile, onThinkingChunk, onContentChunk, received, call, attempt, request, runMultiPhase, returned, onPhaseEnd, onToolCall,
                   onToolResponse, heap, messages, purgedMessages,
                   notifiedToolCallIds, phase, phaseNo, startMessageCount,
                   startPurgedMessageCount, content, round, toolCalls, chunks,
                   modelCalls, producing, producingRounds>>

\* Lines 329-331 and 424-430: the loop takes the next tool call of the round and
\* calls executeTool, which throws at once for an unknown tool and otherwise
\* enters its try block; run awaits it.
ToolStart ==
    /\ pc = "tools"
    /\ LET toolCall == NextToolCall(toolCalls, toolIdx)
       IN  IF ~FindTool(ActiveTools(phase), toolCall)
             THEN /\ Reject(ChatFailed, round, "Unknown tool")
                  /\ UNCHANGED executing
             ELSE /\ executing' = executing \cup {toolIdx}
                  /\ pc' = "executing"
                  /\ outcome' = outcome
    /\ UNCHANGED <<env, stream, loadFile, onThinkingChunk, onContentChunk, received, call, attempt, request, runMultiPhase, returned, onPhaseEnd, onToolCall,
                   onToolResponse, heap, messages, purgedMessages,
                   notifiedToolCallIds, phase, phaseNo, startMessageCount,
                   startPurgedMessageCount, content, round, toolCalls, toolIdx,
                   chunks, modelCalls, producing, producingRounds>>

\* Lines 432-468: the try block of the awaited executeTool call ends, with a
\* result or in the catch; the tool message is appended and the loop of run
\* goes on.
ToolEnd ==
    /\ pc = "executing"
    /\ LET toolCall == NextToolCall(toolCalls, toolIdx)
       IN  \E ends \in ToolEnds(env) :
             LET t == PushBoth(heap, messages, purgedMessages,
                               toolMessage(toolCall, TryResult(toolCall, ends),
                                           phaseNo, round))
             IN  /\ heap' = t.heap
                 /\ messages' = t.messages
                 /\ purgedMessages' = t.purgedMessages
                 /\ onToolResponse' = onToolResponse \o Responses(toolCall, ends)
    /\ executing' = executing \ {toolIdx}
    /\ toolIdx' = toolIdx + 1
    /\ pc' = IF toolIdx = Len(toolCalls) THEN "loop" ELSE "tools"
    /\ UNCHANGED <<env, stream, loadFile, onThinkingChunk, onContentChunk, received, call, attempt, request, runMultiPhase, returned, onPhaseEnd, onToolCall,
                   notifiedToolCallIds, phase, phaseNo, startMessageCount,
                   startPurgedMessageCount, content, round, toolCalls, chunks,
                   modelCalls, producing, producingRounds, outcome>>

\* A test that lets the 30th round pass.
RoundLimitExceeded(r) == r > maxRounds

\* if (round >= maxRounds)
RoundLimitReached(r) == r >= maxRounds

\* Lines 338-342: the loop is left, by break or because its condition failed.
AfterLoop ==
    /\ \/ pc = "check"
       \/ pc = "loop" /\ ~LoopContinues(round)
    /\ IF RoundLimitReached(round)
         THEN Reject(RoundsReached, maxRounds, "")
         ELSE pc' = "purge" /\ outcome' = outcome
    /\ UNCHANGED <<env, stream, loadFile, onThinkingChunk, onContentChunk, received, call, attempt, request, executing, runMultiPhase, returned, onPhaseEnd, onToolCall, onToolResponse, heap, messages, purgedMessages, notifiedToolCallIds, phase,
                   phaseNo, startMessageCount, startPurgedMessageCount, content,
                   round, toolCalls, toolIdx, chunks, modelCalls, producing,
                   producingRounds>>

\* Lines 344-354: the purge directives of the phase.
Purge ==
    /\ pc = "purge"
    /\ \E p \in {ApplyPurge(heap, purgedMessages, phase, startPurgedMessageCount)} :
         /\ heap' = p.heap
         /\ purgedMessages' = p.purgedMessages
    /\ pc' = "validate"
    /\ UNCHANGED <<env, stream, loadFile, onThinkingChunk, onContentChunk, received, call, attempt, request, executing, runMultiPhase, returned, onPhaseEnd, onToolCall, onToolResponse, messages, notifiedToolCallIds, phase, phaseNo,
                   startMessageCount, startPurgedMessageCount, content, round,
                   toolCalls, toolIdx, chunks, modelCalls, producing,
                   producingRounds, outcome>>

\* A validation that rewrites the first assistant message of the record.
validateFirstAssistant(h, ms, ph, text) ==
    LET as == {i \in 1..Len(ms) : h[ms[i]].role = "assistant"}
    IN  IF ph.responseSchema # Absent /\ text # <<>>
             /\ JSONParses(text) /\ SchemaAccepts(ph.responseSchema, text)
             /\ as # {}
          THEN [h EXCEPT ![ms[CHOOSE i \in as : \A j \in as : i <= j]].content =
                            JSONCanonical(text)]
          ELSE h

\* Lines 357-366: the heap after the validation of the structured response.
validate(h, ms, ph, text) ==
    IF ph.responseSchema # Absent /\ text # <<>>
         /\ JSONParses(text) /\ SchemaAccepts(ph.responseSchema, text)
         /\ Len(ms) > 0 /\ h[ms[Len(ms)]].role = "assistant"
      THEN [h EXCEPT ![ms[Len(ms)]].content = JSONCanonical(text)]
      ELSE h

Validate ==
    /\ pc = "validate"
    /\ \E h \in {validate(heap, messages, phase, content)} : heap' = h
    /\ pc' = "phaseEnd"
    /\ UNCHANGED <<env, stream, loadFile, onThinkingChunk, onContentChunk, received, call, attempt, request, executing, runMultiPhase, returned, onPhaseEnd, onToolCall, onToolResponse, messages, purgedMessages, notifiedToolCallIds, phase,
                   phaseNo, startMessageCount, startPurgedMessageCount, content,
                   round, toolCalls, toolIdx, chunks, modelCalls, producing,
                   producingRounds, outcome>>

\* A phase end that hands out the whole permanent record.
PhaseEndWholeRecord ==
    /\ pc = "phaseEnd"
    /\ pc' = "idle"
    /\ onPhaseEnd' = Append(onPhaseEnd, Slice(messages, 0))
    /\ outcome' = [status |-> "returned", text |-> "", n |-> 0, cause |-> "",
                   phases |-> {}, value |-> Slice(messages, 0)]
    /\ returned' = Append(returned, Slice(messages, 0))
    /\ UNCHANGED <<env, stream, loadFile, onThinkingChunk, onContentChunk, received, call, attempt, request, executing, runMultiPhase, onToolCall, onToolResponse, heap, messages, purgedMessages, notifiedToolCallIds, phase,
                   phaseNo, startMessageCount, startPurgedMessageCount, content,
                   round, toolCalls, toolIdx, chunks, modelCalls, producing,
                   producingRounds>>

\* Lines 379-382: onPhaseEnd is called and run returns the new messages.
PhaseEnd ==
    /\ pc = "phaseEnd"
    /\ pc' = "idle"
    /\ onPhaseEnd' = Append(onPhaseEnd, Slice(messages, startMessageCount))
    /\ outcome' = [status |-> "returned", text |-> "", n |-> 0, cause |-> "",
                   phases |-> {}, value |-> Slice(messages, startMessageCount)]
    /\ returned' = Append(returned, Slice(messages, startMessageCount))
    /\ UNCHANGED <<env, stream, loadFile, onThinkingChunk, onContentChunk, received, call, attempt, request, executing, runMultiPhase, onToolCall, onToolResponse, heap, messages, purgedMessages, notifiedToolCallIds, phase,
                   phaseNo, startMessageCount, startPurgedMessageCount, content,
                   round, toolCalls, toolIdx, chunks, modelCalls, producing,
                   producingRounds>>

\* A loop that goes on to the next phase whatever became of the last one.
NextPhaseAlways(driver, o) == TRUE

\* for (const phase of phases) await runner.run(phase): the loop of runMultiPhase
\* reaches its next iteration only if the awaited run did not reject. A direct
\* caller may call run again after a rejection.
NextPhase(driver, o) ==
    \/ driver.status = "none"
    \/ driver.status = "running" /\ o.status # "rejected"

\* runMultiPhase (and any caller): the next run call, with the phase it passes.
Run ==
    /\ NextPhase(runMultiPhase, outcome)
    /\ \E purge \in SUBSET Purges, schema \in Schemas, tools \in PhaseTools(env) :
         RunStart(purge, schema, tools)

\* A runMultiPhase that returns what its last run call returned.
RunMultiPhaseReturnLast ==
    /\ runMultiPhase.status = "running"
    /\ pc = "idle"
    /\ outcome.status # "rejected"
    /\ phaseNo = PhaseLimit(env)
    /\ runMultiPhase' = [status |-> "returned", value |-> outcome.value]
    /\ UNCHANGED <<env, stream, loadFile, onThinkingChunk, onContentChunk, received, call, attempt, request, executing, returned, onPhaseEnd, onToolCall, onToolResponse, heap, messages,
                   purgedMessages, notifiedToolCallIds, pc, phase, phaseNo,
                   startMessageCount, startPurgedMessageCount, content, round,
                   toolCalls, toolIdx, chunks, modelCalls, producing,
                   producingRounds, outcome>>

\* multi-phase.ts line 16: the loop has run out, runner.getMessages() is returned.
RunMultiPhaseReturn ==
    /\ runMultiPhase.status = "running"
    /\ pc = "idle"
    /\ outcome.status # "rejected"
    /\ phaseNo = PhaseLimit(env)
    /\ runMultiPhase' = [status |-> "returned", value |-> messages]
    /\ UNCHANGED <<env, stream, loadFile, onThinkingChunk, onContentChunk, received, call, attempt, request, executing, returned, onPhaseEnd, onToolCall, onToolResponse, heap, messages,
                   purgedMessages, notifiedToolCallIds, pc, phase, phaseNo,
                   startMessageCount, startPurgedMessageCount, content, round,
                   toolCalls, toolIdx, chunks, modelCalls, producing,
                   producingRounds, outcome>>

\* multi-phase.ts line 13: the awaited run rejected, and so does runMultiPhase.
RunMultiPhaseReject ==
    /\ runMultiPhase.status = "running"
    /\ pc = "idle"
    /\ outcome.status = "rejected"
    /\ runMultiPhase' = [status |-> "rejected", value |-> <<>>]
    /\ UNCHANGED <<env, stream, loadFile, onThinkingChunk, onContentChunk, received, call, attempt, request, executing, returned, onPhaseEnd, onToolCall, onToolResponse, heap, messages,
                   purgedMessages, notifiedToolCallIds, pc, phase, phaseNo,
                   startMessageCount, startPurgedMessageCount, content, round,
                   toolCalls, toolIdx, chunks, modelCalls, producing,
                   producingRounds, outcome>>

Next ==
    \/ Run
    \/ BeginRound
    \/ StreamChunk
    \/ StreamFail
    \/ StreamEnd
    \/ ToolStart
    \/ ToolEnd
    \/ AfterLoop
    \/ Purge
    \/ Validate
    \/ PhaseEnd
    \/ RunMultiPhaseReturn
    \/ RunMultiPhaseReject

Spec == Init /\ [][Next]_vars

\* ------------------------------------------- the accumulation of one ToolCall
\* The fragments that deliver the ToolCalls of the indices below i, one whole
\* ToolCall each, before the stream comes to index i.
LeadDeltas(i) ==
    [j \in 1..i |-> First(j - 1, "load", <<"{", "}">>)]

\* The first stream of a phase has been opened; it will deliver the ToolCalls
\* of the lower indices whole, and then one ToolCall whose arguments text
\* comes cut in pieces.
SplitInit ==
    /\ env = "split"
    /\ LET u == PushBoth(<<Message("system", <<"sys">>, <<>>, Absent, Absent, 1, 0)>>,
                         <<1>>, <<1>>,
                         Message("user", <<"prompt">>, <<>>, Absent, Absent, 1, 0))
       IN  heap = u.heap /\ messages = u.messages /\ purgedMessages = u.purgedMessages
    /\ notifiedToolCallIds = {}
    /\ pc = "stream"
    /\ phase = Phase(1, {}, Absent, {})
    /\ phaseNo = 1
    /\ startMessageCount = 0
    /\ startPurgedMessageCount = 0
    /\ content = <<>>
    /\ round = 1
    /\ toolCalls = <<>>
    /\ toolIdx = 0
    /\ chunks = 0
    /\ modelCalls = 1
    /\ producing = FALSE
    /\ producingRounds = 0
    /\ outcome = NoOutcome
    /\ onToolCall = <<>>
    /\ onToolResponse = <<>>
    /\ onPhaseEnd = <<>>
    /\ returned = <<>>
    /\ runMultiPhase = NotDriven
    /\ executing = {}
    /\ request = CreateArguments(ConfigTools)
    /\ attempt = 0
    /\ call = NoCall
    /\ received = <<>>
    /\ onContentChunk = <<>>
    /\ onThinkingChunk = <<>>
    /\ loadFile = NoLoad
    /\ \E i \in {0, 1}, text \in TextsUpTo(MaxArgs), k \in 1..MaxPieces :
         \E pieces \in Pieces(text, k) :
           stream = [index |-> i,
                     call |-> ToolCall(IF i = 0 THEN "c0" ELSE "c1", "load", text),
                     rest |-> LeadDeltas(i)
                                \o Deltas(i, IF i = 0 THEN "c0" ELSE "c1", "load",
                                           pieces)]

\* Lines 252-304 for the next fragment of the scripted stream, which carries
\* one toolCallDelta: the delta is merged into toolCalls (lines 270-287) and the
\* notify loop runs (lines 289-295), in one synchronous step; a TypeError of
\* the notify loop rejects run (line 333).
Accumulate ==
    /\ pc = "stream"
    /\ stream.rest # <<>>
    /\ LET chunk == Chunk(<<>>, <<Head(stream.rest)>>)
           tcs   == applyDeltas(toolCalls, chunk.tool_calls)
           n     == notifyLoop(tcs, 1, notifiedToolCallIds)
       IN  /\ received' = Append(received, chunk)
           /\ toolCalls' = tcs
           /\ notifiedToolCallIds' = n.notified
           /\ onToolCall' = onToolCall \o notifications(tcs, 1, notifiedToolCallIds,
                                                        chunks + 1)
           /\ IF n.threw
                THEN Reject(ChatFailed, round, "TypeError")
                ELSE UNCHANGED <<pc, outcome>>
    /\ stream' = [stream EXCEPT !.rest = Tail(stream.rest)]
    /\ chunks' = chunks + 1
    /\ producing' = TRUE
    /\ UNCHANGED <<env, loadFile, onThinkingChunk, onContentChunk, call, attempt,
                   request, executing, runMultiPhase, returned, onPhaseEnd, heap,
                   messages, purgedMessages, phase, phaseNo, startMessageCount,
                   startPurgedMessageCount, content, round, toolIdx, modelCalls,
                   producingRounds, onToolResponse>>

SplitNext == Accumulate

SplitSpec == SplitInit /\ [][SplitNext]_vars

\* ------------------------------------- the runner with bounded local retry
\* The older ChatRunner (src/unnamed/part_005) executes a ToolCall with
\* executeToolWithRetry. One round of it is modelled, from the point where the
\* assistant message with the round's tool calls has been appended.
maxRetries == 2

\* The decimal numeral of a small number, as it appears in a message text.
Numeral(n) == <<"0", "1", "2", "3", "4">>[n + 1]

\* retryMsg (line 348)
retryMsg(k, cause) ==
    <<"Tool execution failed (attempt ", Numeral(k + 1), "/",
      Numeral(maxRetries + 1), "): ", cause, ". Please retry this tool call.">>

\* errorMsg (line 334)
errorMsg(cause) ==
    <<"Tool execution failed after ", Numeral(maxRetries + 1), " attempts: ",
      cause>>

\* this.findToolByName(name) finds a tool.
findToolByName(name) == name \in ConfigTools

\* The tool calls the one fragment of the round carried (an Ollama tool call
\* has no id).
RetryToolCalls ==
    { <<ToolCall("", "load", <<"{", "}">>)>>,
      <<ToolCall("", "load", <<"{", "}">>), ToolCall("", "load", <<"{", "}">>)>>,
      <<ToolCall("", "nope", <<"{", "}">>), ToolCall("", "load", <<"{", "}">>)>> }

RetryInit ==
    /\ env = "retry"
    /\ toolCalls \in RetryToolCalls
    /\ LET u == PushBoth(<<Message("system", <<"sys">>, <<>>, Absent, Absent, 1, 0)>>,
                         <<1>>, <<1>>,
                         Message("user", <<"prompt">>, <<>>, Absent, Absent, 1, 0))
           a == PushBoth(u.heap, u.messages, u.purgedMessages,
                         Message("assistant", <<>>, toolCalls, Absent, Absent, 1, 1))
       IN  heap = a.heap /\ messages = a.messages /\ purgedMessages = a.purgedMessages
    /\ notifiedToolCallIds = {}
    /\ pc = "tools"
    /\ phase = Phase(1, {}, Absent, {})
    /\ phaseNo = 1
    /\ startMessageCount = 0
    /\ startPurgedMessageCount = 0
    /\ content = <<>>
    /\ round = 1
    /\ toolIdx = 1
    /\ chunks = 1
    /\ modelCalls = 1
    /\ producing = TRUE
    /\ producingRounds = 1
    /\ outcome = NoOutcome
    /\ onToolCall = [i \in 1..Len(toolCalls) |->
                       [index |-> i - 1, id |-> toolCalls[i].id, fragment |-> 1]]
    /\ onToolResponse = <<>>
    /\ onPhaseEnd = <<>>
    /\ returned = <<>>
    /\ runMultiPhase = NotDriven
    /\ executing = {}
    /\ request = CreateArguments(ConfigTools)
    /\ attempt = 0
    /\ call = NoCall
    /\ stream = NoStream
    /\ loadFile = NoLoad
    /\ onThinkingChunk = <<>>
    /\ onContentChunk = <<>>
    /\ received = <<>>

\* The three iterations of the attempt loop for a tool that is not found: the
\* throw of line 307 is caught in place (line 329), so they run without a
\* wait and leave two retry diagnostics and the terminal error.
RECURSIVE unknownToolMessages(_)
unknownToolMessages(k) ==
    IF k > maxRetries THEN <<>>
    ELSE << IF k = maxRetries THEN errorMsg("Unknown tool")
            ELSE retryMsg(k, "Unknown tool") >>
           \o unknownToolMessages(k + 1)

\* The tool messages with the given diagnostics pushed onto both arrays.
RECURSIVE PushDiagnostics(_, _, _)
PushDiagnostics(st, msgs, name) ==
    IF msgs = <<>> THEN st
    ELSE PushDiagnostics(
           PushBoth(st.heap, st.messages, st.purgedMessages,
                    Message("tool", <<"Error: ">> \o Head(msgs), <<>>, Absent,
                            name, phaseNo, round)),
           Tail(msgs), name)

\* Lines 202-203 and 297-312: the loop of run takes the next ToolCall and calls
\* executeToolWithRetry. For a tool that is found, execute is called and
\* awaited (line 312). For one that is not, the throw inside the try (lines
\* 306-310) is caught like a failure of execute, in every iteration.
AttemptStart ==
    /\ pc = "tools"
    /\ LET toolCall == NextToolCall(toolCalls, toolIdx)
       IN  IF findToolByName(toolCall.name)
             THEN /\ executing' = executing \cup {toolIdx}
                  /\ call' = [invoked |-> 1, last |-> "pending",
                              start |-> Len(messages)]
                  /\ pc' = "executing"
                  /\ UNCHANGED <<heap, messages, purgedMessages, onToolResponse,
                                 toolIdx>>
             ELSE LET msgs == unknownToolMessages(0)
                      t    == PushDiagnostics(
                                [heap |-> heap, messages |-> messages,
                                 purgedMessages |-> purgedMessages],
                                msgs, toolCall.name)
                  IN  /\ heap' = t.heap
                      /\ messages' = t.messages
                      /\ purgedMessages' = t.purgedMessages
                      /\ onToolResponse' =
                           onToolResponse
                             \o [k \in 1..Len(msgs) |->
                                   [type |-> "string", text |-> msgs[k]]]
                      /\ call' = [invoked |-> 0, last |-> "unknown",
                                  start |-> Len(messages)]
                      /\ toolIdx' = toolIdx + 1
                      /\ pc' = IF toolIdx = Len(toolCalls) THEN "loop" ELSE "tools"
                      /\ UNCHANGED executing
    /\ attempt' = 0
    /\ UNCHANGED <<env, stream, loadFile, onThinkingChunk, onContentChunk, received,
                   request, runMultiPhase, returned, onPhaseEnd, onToolCall,
                   notifiedToolCallIds, phase, phaseNo, startMessageCount,
                   startPurgedMessageCount, content, round, toolCalls, chunks,
                   modelCalls, producing, producingRounds, outcome>>

\* Lines 312-360: the awaited execute ends. A result is passed to
\* onToolResponse (line 315) and serialized (line 320); a throw of execute, or
\* of JSON.stringify for a result it cannot serialize, is caught and leaves a
\* diagnostic. Unless the call is over, the next iteration calls execute
\* again and waits for it.
AttemptEnd ==
    /\ pc = "executing"
    /\ LET toolCall == NextToolCall(toolCalls, toolIdx)
       IN  \E ends \in ToolEnds(env) :
             LET resolved == ends # "throw"
                 ok       == resolved /\ Serializable(ToolValue(ends))
                 cause    == IF ends = "throw" THEN "failed" ELSE "TypeError"
                 msg      == IF attempt = maxRetries THEN errorMsg(cause)
                             ELSE retryMsg(attempt, cause)
                 text     == IF ok THEN ResultContent(ToolValue(ends))
                             ELSE <<"Error: ">> \o msg
                 t        == PushBoth(heap, messages, purgedMessages,
                                      Message("tool", text, <<>>, Absent,
                                              toolCall.name, phaseNo, round))
                 done     == ok \/ attempt = maxRetries
             IN  /\ heap' = t.heap
                 /\ messages' = t.messages
                 /\ purgedMessages' = t.purgedMessages
                 /\ onToolResponse' =
                      onToolResponse
                        \o (IF resolved THEN <<ToolValue(ends)>> ELSE <<>>)
                        \o (IF ok THEN <<>> ELSE <<[type |-> "string", text |-> msg]>>)
                 /\ call' = [invoked |-> call.invoked + (IF done THEN 0 ELSE 1),
                             last |-> ends,
                             start |-> call.start]
                 /\ attempt' = IF done THEN 0 ELSE attempt + 1
                 /\ executing' = IF done THEN executing \ {toolIdx} ELSE executing
                 /\ toolIdx' = IF done THEN toolIdx + 1 ELSE toolIdx
                 /\ pc' = IF ~done THEN "executing"
                          ELSE IF toolIdx = Len(toolCalls) THEN "loop" ELSE "tools"
    /\ UNCHANGED <<env, stream, loadFile, onThinkingChunk, onContentChunk, received,
                   request, runMultiPhase, returned, onPhaseEnd, onToolCall,
                   notifiedToolCallIds, phase, phaseNo, startMessageCount,
                   startPurgedMessageCount, content, round, toolCalls, chunks,
                   modelCalls, producing, producingRounds, outcome>>

RetryNext ==
    \/ AttemptStart
    \/ AttemptEnd

RetrySpec == RetryInit /\ [][RetryNext]_vars

\* ------------------------------------------------- the purges on their own
\* The tool-call purges applied to context views of up to MaxBlocks exchanges:
\* a user message, an assistant message without tool calls, or an assistant
\* message with one or two ToolCalls followed by their tool messages.
Blocks ==
    LET c0 == ToolCall("c0", "load", <<"{", "}">>)
        c1 == ToolCall("c1", "load", <<"{", "}">>)
        tool(c) == Message("tool", ToolResultText, <<>>, c.id, c.name, 1, 1)
    IN  { << Message("user", <<"prompt">>, <<>>, Absent, Absent, 1, 0) >>,
          << Message("assistant", <<"1">>, <<>>, Absent, Absent, 1, 1) >>,
          << Message("assistant", <<>>, <<c0>>, Absent, Absent, 1, 1), tool(c0) >>,
          << Message("assistant", <<"1">>, <<c0, c1>>, Absent, Absent, 1, 1),
             tool(c0), tool(c1) >> }

RECURSIVE ViewsOf(_)
ViewsOf(n) ==
    IF n = 0 THEN { <<>> }
    ELSE ViewsOf(n - 1)
           \cup { v \o b : v \in ViewsOf(n - 1), b \in Blocks }

PurgeInit ==
    /\ env = "purge"
    /\ heap \in ViewsOf(MaxBlocks)
    /\ messages = [i \in 1..Len(heap) |-> i]
    /\ purgedMessages = messages
    /\ startPurgedMessageCount \in
         {i \in 0..Len(heap) : i = Len(heap) \/ heap[i + 1].role = "user"}
    /\ startMessageCount = startPurgedMessageCount
    /\ \E purge \in SUBSET Purges : phase = Phase(1, purge, Absent, {})
    /\ notifiedToolCallIds = {}
    /\ pc = "purge"
    /\ phaseNo = 1
    /\ content = <<>>
    /\ round = 1
    /\ toolCalls = <<>>
    /\ toolIdx = 0
    /\ chunks = 0
    /\ modelCalls = 1
    /\ producing = FALSE
    /\ producingRounds = 0
    /\ outcome = NoOutcome
    /\ onToolCall = <<>>
    /\ onToolResponse = <<>>
    /\ onPhaseEnd = <<>>
    /\ returned = <<>>
    /\ runMultiPhase = NotDriven
    /\ executing = {}
    /\ request = CreateArguments(ConfigTools)
    /\ attempt = 0
    /\ call = NoCall
    /\ received = <<>>
    /\ onContentChunk = <<>>
    /\ onThinkingChunk = <<>>
    /\ stream = NoStream
    /\ loadFile = NoLoad

\* this.purgeToolCallsFromPhase(startPurgedMessageCount), called on its own.
PurgeFromPhase ==
    /\ pc \in {"purge", "purgedFromPhase", "purgedAll"}
    /\ \E p \in {purgeToolCallsFromPhase(heap, purgedMessages,
                                          startPurgedMessageCount)} :
         /\ heap' = p.heap
         /\ purgedMessages' = p.purgedMessages
    /\ pc' = "purgedFromPhase"
    /\ UNCHANGED <<env, stream, loadFile, onThinkingChunk, onContentChunk, received, call,
                   attempt, request, executing, runMultiPhase, returned,
                   onPhaseEnd, onToolCall, onToolResponse, messages,
                   notifiedToolCallIds, phase, phaseNo, startMessageCount,
                   startPurgedMessageCount, content, round, toolCalls, toolIdx,
                   chunks, modelCalls, producing, producingRounds, outcome>>

\* this.purgeAllToolCalls(), called on its own.
PurgeAll ==
    /\ pc \in {"purge", "purgedFromPhase", "purgedAll"}
    /\ \E p \in {purgeAllToolCalls(heap, purgedMessages)} :
         /\ heap' = p.heap
         /\ purgedMessages' = p.purgedMessages
    /\ pc' = "purgedAll"
    /\ UNCHANGED <<env, stream, loadFile, onThinkingChunk, onContentChunk, received, call,
                   attempt, request, executing, runMultiPhase, returned,
                   onPhaseEnd, onToolCall, onToolResponse, messages,
                   notifiedToolCallIds, phase, phaseNo, startMessageCount,
                   startPurgedMessageCount, content, round, toolCalls, toolIdx,
                   chunks, modelCalls, producing, producingRounds, outcome>>

PurgeNext ==
    \/ PurgeFromPhase
    \/ PurgeAll
    \/ Purge

PurgeSpec == PurgeInit /\ [][PurgeNext]_vars

\* ------------------------------------------------------------ load_file
\* src/tools/loadFile.ts on a POSIX file system. A path is a sequence of
\* characters; "a" stands for any character other than "/" and ".".
PathChars == {"/", ".", "a"}

RECURSIVE PathsUpTo(_)
PathsUpTo(n) ==
    IF n = 0 THEN { <<>> }
    ELSE PathsUpTo(n - 1)
           \cup { Append(p, c) : p \in {q \in PathsUpTo(n - 1) : Len(q) = n - 1},
                                 c \in PathChars }

\* config.basePath: the absolute directory of the agent's Markdown file.
BasePaths == { <<"/", "a">>, <<"/", "a", "/", "a">> }

\* String.prototype.split(separator): the pieces between the separators.
RECURSIVE split(_, _)
split(str, separator) ==
    IF \A i \in 1..Len(str) : str[i] # separator THEN << str >>
    ELSE LET i == CHOOSE k \in 1..Len(str) :
                    /\ str[k] = separator
                    /\ \A j \in 1..(k - 1) : str[j] # separator
         IN  << SubSeq(str, 1, i - 1) >>
               \o split(SubSeq(str, i + 1, Len(str)), separator)

\* Array.prototype.join(separator).
RECURSIVE join(_, _)
join(parts, separator) ==
    IF Len(parts) = 0 THEN <<>>
    ELSE IF Len(parts) = 1 THEN parts[1]
    ELSE parts[1] \o << separator >> \o join(Tail(parts), separator)

\* String.prototype.startsWith(prefix).
startsWith(str, prefix) ==
    /\ Len(str) >= Len(prefix)
    /\ SubSeq(str, 1, Len(prefix)) = prefix

\* node:path normalizeString of an absolute path (allowAboveRoot false), on
\* its segments: empty and "." segments are dropped, ".." drops the segment
\* before it and is dropped itself at the root.
RECURSIVE normalizeString(_, _)
normalizeString(segments, done) ==
    IF segments = <<>> THEN done
    ELSE LET seg == Head(segments)
         IN  normalizeString(Tail(segments),
               CASE seg \in {<<>>, <<".">>} -> done
                 [] seg = <<".", ".">> ->
                      IF done = <<>> THEN done
                      ELSE SubSeq(done, 1, Len(done) - 1)
                 [] OTHER -> Append(done, seg))

\* node:path resolve(from, to) with an absolute first argument: the
\* segments of the absolute, normalized path.
resolve(from, to) ==
    IF startsWith(to, <<"/">>)
      THEN normalizeString(split(to, "/"), <<>>)
      ELSE normalizeString(split(from \o <<"/">> \o to, "/"), <<>>)

\* Length of the longest common prefix of two segment sequences.
RECURSIVE commonPrefix(_, _)
commonPrefix(a, b) ==
    IF a # <<>> /\ b # <<>> /\ Head(a) = Head(b)
      THEN 1 + commonPrefix(Tail(a), Tail(b))
      ELSE 0

\* node:path relative(from, to): ".." for every segment of from after the
\* common prefix, then the segments of to after it, joined by "/".
relative(from, to) ==
    LET f == resolve(from, <<>>)
        t == resolve(to, <<>>)
        n == commonPrefix(f, t)
    IN  join([i \in 1..(Len(f) - n) |-> <<".", ".">>]
               \o SubSeq(t, n + 1, Len(t)), "/")

\* A check that looks at the directories of the path only, not at the file
\* name.
hasHiddenDirectoryOnly(pathParts) ==
    \E i \in 1..(Len(pathParts) - 1) :
        startsWith(pathParts[i], <<".">>) /\ pathParts[i] # <<".">>

\* Lines 36-38: pathParts.some(part => part.startsWith(".") && part !== ".").
hasHiddenDirectory(pathParts) ==
    \E i \in 1..Len(pathParts) :
        startsWith(pathParts[i], <<".">>) /\ pathParts[i] # <<".">>

LoadInit ==
    /\ env = "load"
    /\ \E basePath \in BasePaths, path \in PathsUpTo(MaxPath) :
         loadFile = [basePath |-> basePath, path |-> path, status |-> "called",
                     reads |-> <<>>, error |-> ""]
    /\ heap = <<>>
    /\ messages = <<>>
    /\ purgedMessages = <<>>
    /\ startPurgedMessageCount = 0
    /\ startMessageCount = 0
    /\ phase = Phase(0, {}, Absent, {})
    /\ notifiedToolCallIds = {}
    /\ pc = "executing"
    /\ phaseNo = 1
    /\ content = <<>>
    /\ round = 1
    /\ toolCalls = <<>>
    /\ toolIdx = 0
    /\ chunks = 0
    /\ modelCalls = 1
    /\ producing = FALSE
    /\ producingRounds = 0
    /\ outcome = NoOutcome
    /\ onToolCall = <<>>
    /\ onToolResponse = <<>>
    /\ onPhaseEnd = <<>>
    /\ returned = <<>>
    /\ runMultiPhase = NotDriven
    /\ executing = {}
    /\ request = CreateArguments(ConfigTools)
    /\ attempt = 0
    /\ call = NoCall
    /\ received = <<>>
    /\ onContentChunk = <<>>
    /\ onThinkingChunk = <<>>
    /\ stream = NoStream

\* Lines 18-45: execute up to the call of readFile.
execute ==
    /\ loadFile.status = "called"
    /\ LET resolvedPath == resolve(loadFile.basePath, loadFile.path)
           relativePath == relative(loadFile.basePath,
                                    <<"/">> \o join(resolvedPath, "/"))
           normalizedRelativePath == join(split(relativePath, "/"), "/")
           pathParts == split(normalizedRelativePath, "/")
       IN  loadFile' =
             IF startsWith(normalizedRelativePath, <<".", ".">>)
               THEN [loadFile EXCEPT !.status = "rejected",
                                     !.error = "Access denied: outside the agent directory"]
             ELSE IF hasHiddenDirectory(pathParts)
               THEN [loadFile EXCEPT !.status = "rejected",
                                     !.error = "Access denied: contains hidden directories"]
             ELSE [loadFile EXCEPT !.status = "reading",
                                   !.reads = << resolvedPath >>]
    /\ UNCHANGED <<env, stream, onThinkingChunk, onContentChunk, received, call,
                   attempt, request, executing, runMultiPhase, returned,
                   onPhaseEnd, onToolCall, onToolResponse, heap, messages,
                   purgedMessages, notifiedToolCallIds, pc, phase, phaseNo,
                   startMessageCount, startPurgedMessageCount, content, round,
                   toolCalls, toolIdx, chunks, modelCalls, producing,
                   producingRounds, outcome>>

\* Lines 45-46: readFile settles; the file is returned, or the error of the
\* file system (no such file, a directory) is execute's.
readFile ==
    /\ loadFile.status = "reading"
    /\ \E ends \in {"resolved", "rejected"} :
         loadFile' = [loadFile EXCEPT !.status = ends,
                                      !.error = IF ends = "rejected"
                                                  THEN "ENOENT" ELSE ""]
    /\ UNCHANGED <<env, stream, onThinkingChunk, onContentChunk, received, call,
                   attempt, request, executing, runMultiPhase, returned,
                   onPhaseEnd, onToolCall, onToolResponse, heap, messages,
                   purgedMessages, notifiedToolCallIds, pc, phase, phaseNo,
                   startMessageCount, startPurgedMessageCount, content, round,
                   toolCalls, toolIdx, chunks, modelCalls, producing,
                   producingRounds, outcome>>

LoadNext ==
    \/ execute
    \/ readFile

LoadSpec == LoadInit /\ [][LoadNext]_vars

\* ------------------------------------------------------------ properties
\* The permanent record and the context view, as messages.
Record == Deref(heap, messages)

View == Deref(heap, purgedMessages)

\* Message i was created before message j, or with it: by an earlier run call,
\* or by the same one in an earlier or the same round.
NotAfter(a, b) == a.phase < b.phase \/ (a.phase = b.phase /\ a.round <= b.round)

\* C1: the permanent record is in model-call-result order. Messages appear in
\* the order of the rounds that created them; a round has at most one assistant
\* message, which precedes the round's tool-result messages; and the t-th
\* message after it, if it is of that round, is the result of its t-th ToolCall.
C1_AppendOrder ==
    \A i \in 1..Len(Record) :
      /\ \A j \in i..Len(Record) : NotAfter(Record[i], Record[j])
      /\ Record[i].role = "assistant" =>
           \A j \in (i + 1)..Len(Record) :
             (Record[j].phase = Record[i].phase /\ Record[j].round = Record[i].round) =>
               /\ Record[j].role = "tool"
               /\ j - i <= Len(Record[i].tool_calls)
               /\ Record[j].tool_call_id = Record[i].tool_calls[j - i].id
               /\ Record[j].name = Record[i].tool_calls[j - i].name
      /\ Record[i].role = "tool" =>
           \E a \in 1..(i - 1) :
             /\ Record[a].role = "assistant"
             /\ Record[a].phase = Record[i].phase
             /\ Record[a].round = Record[i].round

\* A phase whose first round made two tool calls, both executed, and whose
\* second round has appended its assistant message.
C1_Witness ==
    \E i \in 1..Len(Record) :
      /\ i + 3 <= Len(Record)
      /\ Record[i].role = "assistant"
      /\ Len(Record[i].tool_calls) = 2
      /\ Record[i].tool_calls[1].id # Record[i].tool_calls[2].id
      /\ Record[i + 1].role = "tool"
      /\ Record[i + 2].role = "tool"
      /\ Record[i + 3].role = "assistant"
      /\ Record[i + 3].round = Record[i].round + 1

\* The last n messages of a sequence of messages.
LastN(s, n) == SubSeq(s, Len(s) - n + 1, Len(s))

\* The last message of both arrays is one object: the result of toolCall.
IsResultOf(h, ms, pm, toolCall) ==
    /\ Len(ms) > 0 /\ Len(pm) > 0
    /\ ms[Len(ms)] = pm[Len(pm)]
    /\ h[ms[Len(ms)]].role = "tool"
    /\ h[ms[Len(ms)]].tool_call_id = toolCall.id
    /\ h[ms[Len(ms)]].name = toolCall.name

\* C2: a step that executes a ToolCall (the tool is known) appends exactly one
\* message to the permanent record and to the context view, a tool-result
\* message with the call's id and function name, whether execute succeeded or
\* failed; and when the last call of a round has been executed, both arrays
\* end with the round's assistant message followed by one tool message per
\* ToolCall, in order.
C2_OneResultPerCall ==
    [][ pc = "executing" =>
          /\ Len(messages') = Len(messages) + 1
          /\ Len(purgedMessages') = Len(purgedMessages) + 1
          /\ SubSeq(messages', 1, Len(messages)) = messages
          /\ SubSeq(purgedMessages', 1, Len(purgedMessages)) = purgedMessages
          /\ IsResultOf(heap', messages', purgedMessages', toolCalls[toolIdx])
          /\ pc' = "loop" =>
               LET k == Len(toolCalls)
                   r == LastN(Deref(heap', messages'), k + 1)
                   v == LastN(Deref(heap', purgedMessages'), k + 1)
               IN  /\ Len(messages') > k /\ Len(purgedMessages') > k
                   /\ r = v
                   /\ r[1].role = "assistant"
                   /\ r[1].tool_calls = toolCalls
                   /\ \A t \in 1..k :
                        /\ r[t + 1].role = "tool"
                        /\ r[t + 1].tool_call_id = toolCalls[t].id
                        /\ r[t + 1].name = toolCalls[t].name
      ]_vars

\* A round with two tool calls is complete: the first failed, the second
\* succeeded, and each left its tool message.
C2_Witness ==
    /\ pc = "loop"
    /\ Len(toolCalls) = 2
    /\ Len(Record) >= 3
    /\ Record[Len(Record) - 1].role = "tool"
    /\ Record[Len(Record) - 1].content = ErrorContent("failed")
    /\ Record[Len(Record)].role = "tool"
    /\ Record[Len(Record)].content = ToolResultText

\* The runs whose length the round limit decides: those of a model that asks
\* for tools in every round ("long"), and the run calls of several phases, made
\* directly ("multi") or by runMultiPhase ("chain").
FairInit == Init /\ env \in {"multi", "long", "chain"}

\* Every stream and every tool call finishes, and the caller goes on: a step
\* that is possible is eventually taken.
FairSpec == FairInit /\ [][Next]_vars /\ WF_vars(Next)

\* C3: a phase makes at most maxRounds (30) model calls and never starts round
\* 31, and a run call that has started eventually returns or rejects.
C3_BoundedRounds ==
    /\ [](modelCalls <= maxRounds /\ round <= maxRounds)
    /\ ((pc # "idle") ~> (pc = "idle"))

\* The 30th model call of a phase has been made.
C3_Witness == pc = "stream" /\ modelCalls = maxRounds /\ round = maxRounds

\* C4: after 30 rounds that all requested tool calls the phase rejects with the
\* error that names the round limit, 30; a phase whose round r < 30 requested
\* no tool call leaves the loop, is purged and validated without an error and
\* returns, having made exactly r model calls.
C4_RoundLimit ==
    [][ /\ (pc = "loop" /\ round = maxRounds) =>
             /\ pc' = "idle"
             /\ outcome'.status = "rejected"
             /\ outcome'.text = RoundsReached
             /\ outcome'.n = maxRounds
        /\ (pc = "check" /\ round < maxRounds) =>
             /\ Len(toolCalls) = 0
             /\ pc' = "purge"
             /\ modelCalls' = round
        /\ pc = "purge" => (pc' = "validate" /\ modelCalls' = modelCalls)
        /\ pc = "validate" => (pc' = "phaseEnd" /\ modelCalls' = modelCalls)
        /\ pc = "phaseEnd" =>
             /\ pc' = "idle"
             /\ outcome'.status = "returned"
             /\ modelCalls' = round
             /\ round < maxRounds
      ]_vars

\* A phase has been rejected for the round limit after 30 model calls, the
\* last of which requested a tool call.
C4_Witness ==
    /\ pc = "idle"
    /\ outcome.status = "rejected"
    /\ outcome.text = RoundsReached
    /\ outcome.n = maxRounds
    /\ modelCalls = maxRounds
    /\ Len(toolCalls) > 0

\* C5: the round-limit error is raised only when the response of round 30
\* requested tool calls.
C5_RaisedOnlyWithToolCalls ==
    (outcome.status = "rejected" /\ outcome.text = RoundsReached) => Len(toolCalls) > 0

\* The assistant messages this phase has appended to the permanent record.
AssistantCount ==
    Cardinality({i \in (startMessageCount + 1)..Len(messages) :
                   Record[i].role = "assistant"})

\* C6: the assistant messages appended in a phase are as many as the rounds
\* whose stream produced content or tool calls.
C6_AssistantPerProducingRound == AssistantCount = producingRounds

\* C7: the purge step leaves the permanent record as it is: the same messages
\* in the same order, each with its role, content, tool_calls and tool_call_id.
C7_PurgeKeepsRecord ==
    [][ pc = "purge" => Deref(heap', messages') = Deref(heap, messages) ]_vars

\* A phase with all three directives has been purged: the context view has
\* lost messages, and the record holds a message with tool_calls.
C7_Witness ==
    /\ pc = "validate"
    /\ phase.purge = Purges
    /\ phaseNo = 2
    /\ Len(purgedMessages) + 2 < Len(messages)
    /\ \E i \in (startMessageCount + 1)..Len(Record) : Record[i].tool_calls # <<>>

\* C8: the permanent record is at least as long as the context view, and no
\* step shortens it.
C8_RecordNotShorter ==
    /\ [](Len(messages) >= Len(purgedMessages))
    /\ [][Len(messages') >= Len(messages)]_vars

\* In a second phase, the record is longer than the context view.
C8_Witness ==
    /\ phaseNo = 2
    /\ pc = "tools"
    /\ Len(messages) > Len(purgedMessages) + 1

\* The sequence new is the sequence old, possibly with elements appended.
Extends(new, old) == Len(new) >= Len(old) /\ SubSeq(new, 1, Len(old)) = old

\* The run call that ended last threw while it built the format prompt (line
\* 169), before it appended anything.
PrologueFailed == pc = "idle" /\ outcome.status = "rejected" /\ outcome.text = SchemaError

\* C9 as stated: once run has been called, the permanent record holds one
\* system message, the first one, created by the first run call; the context
\* view holds no other system message.
C9_OneSystemMessage ==
    phaseNo >= 1 =>
      /\ Len(Record) >= 1
      /\ Record[1].role = "system"
      /\ Record[1].phase = 1
      /\ \A i \in 2..Len(Record) : Record[i].role # "system"
      /\ \A i \in 1..Len(purgedMessages) :
           View[i].role = "system" => purgedMessages[i] = messages[1]

\* C9 (amended): the permanent record is empty or holds one system message,
\* the first one; it is empty only before the first run call and while every
\* run call so far has thrown before appending anything; the context view
\* holds no other system message; and the system message is appended, to both
\* sequences and together with the user message, only by a run call that
\* starts while the record is empty.
C9_OneSystemMessageOnceAppended ==
    /\ [](/\ Len(Record) >= 1 =>
               /\ Record[1].role = "system"
               /\ \A i \in 2..Len(Record) : Record[i].role # "system"
          /\ Len(Record) = 0 => (phaseNo = 0 \/ PrologueFailed)
          /\ \A i \in 1..Len(purgedMessages) :
               View[i].role = "system" => purgedMessages[i] = messages[1])
    /\ [][ (\E i \in (Len(messages) + 1)..Len(messages') :
               heap'[messages'[i]].role = "system") =>
             /\ pc = "idle"
             /\ messages = <<>>
             /\ Len(messages') = 2
             /\ heap'[messages'[1]].role = "system"
             /\ heap'[messages'[2]].role = "user"
             /\ heap'[messages'[1]].phase = phaseNo'
             /\ purgedMessages' = purgedMessages \o messages'
          ]_vars

\* A second run call is under way after the first one threw on its response
\* schema: the record begins with the system message, which the second call
\* appended.
C9_Witness ==
    /\ phaseNo = 2
    /\ pc = "stream"
    /\ Record[1].role = "system"
    /\ Record[1].phase = 2
    /\ Record[2].role = "user"
    /\ \A i \in 1..Len(Record) : Record[i].phase = 2

\* The contents of the assistant messages of a sequence of messages, in order.
AssistantContents(s) ==
    LET a == SelectSeq(s, LAMBDA m : m.role = "assistant")
    IN  [i \in 1..Len(a) |-> a[i].content]

\* C10: the purge step of a phase that declares only tool-calls, with k the
\* length of the context view when the phase began: from position k on the
\* context view holds no tool message and no assistant message with
\* tool_calls; the assistant messages of the phase are all there, with their
\* content; the first k messages are the same objects, unchanged.
C10_ToolCallsPurge ==
    [][ (pc = "purge" /\ phase.purge = {"tool-calls"}) =>
          LET k   == startPurgedMessageCount
              old == Deref(heap, purgedMessages)
              new == Deref(heap', purgedMessages')
          IN  /\ Len(new) >= k
              /\ \A i \in (k + 1)..Len(new) :
                   new[i].role # "tool" /\ new[i].tool_calls = <<>>
              /\ AssistantContents(Slice(new, k)) = AssistantContents(Slice(old, k))
              /\ SubSeq(purgedMessages', 1, k) = SubSeq(purgedMessages, 1, k)
              /\ SubSeq(new, 1, k) = SubSeq(old, 1, k)
      ]_vars

\* The second phase, which declares only tool-calls, has been purged: its
\* part of the context view has lost its tool messages, and the part of the
\* first phase still holds a tool message and an assistant message with
\* tool_calls.
C10_Witness ==
    /\ pc = "validate"
    /\ phaseNo = 2
    /\ phase.purge = {"tool-calls"}
    /\ \E i \in (startMessageCount + 1)..Len(Record) : Len(Record[i].tool_calls) = 2
    /\ \E i \in 1..startPurgedMessageCount : View[i].role = "tool"
    /\ \E i \in 1..startPurgedMessageCount : View[i].tool_calls # <<>>
    /\ \A i \in (startPurgedMessageCount + 1)..Len(View) : View[i].role # "tool"

\* The role and the content of the messages of a sequence that are not tool
\* messages, in order.
Conversation(s) ==
    LET a == SelectSeq(s, LAMBDA m : m.role # "tool")
    IN  [i \in 1..Len(a) |-> [role |-> a[i].role, content |-> a[i].content]]

\* No tool message and no assistant message with tool_calls.
NoToolTraffic(s) == \A i \in 1..Len(s) : s[i].role # "tool" /\ s[i].tool_calls = <<>>

\* The run call is past its purge step, or has returned.
Purged == pc \in {"validate", "phaseEnd"} \/ (pc = "idle" /\ outcome.status = "returned")

\* C11 as stated, for every phase that declares all-tool-calls: after the purge
\* the context view holds no tool message and no tool_calls, and the purge step
\* keeps every system, user and assistant message of the context view, in
\* order, with its content.
C11_AllToolCallsPurgeAnyPhase ==
    [][ (pc = "purge" /\ "all-tool-calls" \in phase.purge) =>
          /\ NoToolTraffic(Deref(heap', purgedMessages'))
          /\ Conversation(Deref(heap', purgedMessages'))
               = Conversation(Deref(heap, purgedMessages))
      ]_vars

\* C11 (amended): for a phase that declares all-tool-calls and not
\* previous-messages, the purge step leaves a context view without tool
\* messages and without tool_calls that holds every system, user and assistant
\* message it held, in order, with its content; and the context view holds no
\* tool message and no tool_calls from then on until run has returned.
C11_AllToolCallsPurge ==
    /\ []((Purged /\ "all-tool-calls" \in phase.purge) => NoToolTraffic(View))
    /\ [][ (pc = "purge" /\ "all-tool-calls" \in phase.purge
                        /\ "previous-messages" \notin phase.purge) =>
              /\ NoToolTraffic(Deref(heap', purgedMessages'))
              /\ Conversation(Deref(heap', purgedMessages'))
                   = Conversation(Deref(heap, purgedMessages))
          ]_vars

\* The second phase, which declares only all-tool-calls, has been purged: the
\* record holds two consecutive tool messages of the first phase and a tool
\* message of the second, and the context view still begins with the system
\* message.
C11_Witness ==
    /\ pc = "validate"
    /\ phaseNo = 2
    /\ phase.purge = {"all-tool-calls"}
    /\ \E i \in 1..startMessageCount :
         Record[i].role = "tool" /\ Record[i + 1].role = "tool"
    /\ \E i \in (startMessageCount + 1)..Len(Record) : Record[i].role = "tool"
    /\ Len(View) >= 4
    /\ View[1].role = "system"
    /\ NoToolTraffic(View)

\* The role and the content of the messages of a sequence, in order.
Texts(s) == [i \in 1..Len(s) |-> [role |-> s[i].role, content |-> s[i].content]]

\* A sequence of messages without its tool messages and without tool_calls.
StripToolTraffic(s) ==
    LET a == SelectSeq(s, LAMBDA m : m.role # "tool")
    IN  [i \in 1..Len(a) |-> [a[i] EXCEPT !.tool_calls = <<>>]]

\* The run call under way, or the one that ended last, has its user message in
\* the permanent record, unless it threw before appending anything.
EveryPhaseRecorded ==
    (phaseNo >= 1 /\ ~PrologueFailed) =>
      \E i \in 1..Len(Record) : Record[i].role = "user" /\ Record[i].phase = phaseNo

\* C12 as stated: the purge step of a phase that declares previous-messages,
\* alone or with tool-calls, leaves as context view exactly the messages the
\* phase appended, and the permanent record as it was.
C12_PreviousMessagesKeepsAllOfPhase ==
    [][ (pc = "purge" /\ "previous-messages" \in phase.purge
                     /\ "all-tool-calls" \notin phase.purge) =>
          /\ Texts(Deref(heap', purgedMessages'))
               = Texts(Slice(Record, startMessageCount))
          /\ Deref(heap', messages') = Record
      ]_vars

\* C12 (amended): the purge step of a phase that declares previous-messages
\* without all-tool-calls leaves as context view the messages the phase
\* appended: the very objects when previous-messages is alone, and with
\* tool-calls those that are not tool messages, without their tool_calls. From
\* then on until run has returned the context view holds messages of this
\* phase only, its user message first (after the system message in the phase
\* that began with an empty record). The permanent record is not changed by
\* the purge; it holds the user message of every phase that appended one, and
\* no step removes a message from it.
C12_PreviousMessagesPurge ==
    /\ [](EveryPhaseRecorded)
    /\ [][Extends(messages', messages)]_vars
    /\ []((Purged /\ "previous-messages" \in phase.purge
                  /\ "all-tool-calls" \notin phase.purge) =>
            /\ \A i \in 1..Len(View) : View[i].phase = phaseNo
            /\ Len(View) >= 1
            /\ IF startMessageCount = 0
                 THEN View[1].role = "system" /\ Len(View) >= 2 /\ View[2].role = "user"
                 ELSE View[1].role = "user"
            /\ \A i \in 2..Len(View) : View[i].role # "system")
    /\ [][ (pc = "purge" /\ "previous-messages" \in phase.purge
                        /\ "all-tool-calls" \notin phase.purge) =>
              /\ IF "tool-calls" \in phase.purge
                   THEN Deref(heap', purgedMessages')
                          = StripToolTraffic(Slice(Record, startMessageCount))
                   ELSE purgedMessages' = Slice(messages, startMessageCount)
              /\ Deref(heap', messages') = Record
          ]_vars

\* The second phase, which declares previous-messages and tool-calls, has made
\* tool calls and has been purged: the context view begins with its user
\* message, and the record holds the system message and a tool message of the
\* first phase.
C12_Witness ==
    /\ pc = "validate"
    /\ phaseNo = 2
    /\ phase.purge = {"previous-messages", "tool-calls"}
    /\ \E i \in (startMessageCount + 1)..Len(Record) : Record[i].role = "tool"
    /\ \E i \in 1..startMessageCount : Record[i].role = "tool"
    /\ Record[1].role = "system"
    /\ Len(View) >= 2
    /\ View[1].role = "user"
    /\ View[1].phase = 2

\* C13: the purge step of a phase that declares all-tool-calls and
\* previous-messages, taken when the context view holds a tool message of an
\* earlier phase, leaves a context view that holds this phase's user message
\* and the assistant messages of this phase, all without tool_calls, and no
\* message of an earlier phase. (phase.purge is only tested with includes, so
\* the order of the directives in it has no part in the step.)
C13_CombinedPurge ==
    [][ (/\ pc = "purge"
         /\ {"all-tool-calls", "previous-messages"} \subseteq phase.purge
         /\ \E i \in 1..startPurgedMessageCount : View[i].role = "tool") =>
          LET new == Deref(heap', purgedMessages')
          IN  /\ \E i \in 1..Len(new) : new[i].role = "user" /\ new[i].phase = phaseNo
              /\ AssistantContents(new)
                   = AssistantContents(Slice(Record, startMessageCount))
              /\ NoToolTraffic(new)
              /\ \A i \in 1..Len(new) : new[i].phase = phaseNo
      ]_vars

\* The messages of a sequence that were created by run call q and are tool
\* messages or carry tool_calls.
ToolTrafficOf(s, q) ==
    {i \in 1..Len(s) : s[i].phase = q /\ (s[i].role = "tool" \/ s[i].tool_calls # <<>>)}

\* C14: (a) when the first model call of a phase is in flight and the phase
\* before it ended with a final text answer (an assistant message without
\* tool_calls, with content), the context view passed to the call holds that
\* message; (b) when a phase that declares tool-calls or all-tool-calls is
\* purged, the context view holds no tool message and no tool_calls of that
\* phase, and no step brings tool messages or tool_calls of an earlier phase
\* back into the context view.
C14_AnswerKeptToolUseErased ==
    /\ []((pc = "stream" /\ round = 1 /\ phaseNo >= 2 /\ startMessageCount >= 1) =>
            LET final == Record[startMessageCount]
            IN  (/\ final.role = "assistant"
                 /\ final.phase = phaseNo - 1
                 /\ final.tool_calls = <<>>
                 /\ final.content # <<>>) =>
                  \E i \in 1..Len(View) :
                    /\ View[i].role = "assistant"
                    /\ View[i].phase = final.phase
                    /\ View[i].round = final.round
                    /\ View[i].content = final.content)
    /\ []((Purged /\ phase.purge \cap {"tool-calls", "all-tool-calls"} # {}) =>
            ToolTrafficOf(View, phaseNo) = {})
    /\ [][ \A q \in 1..(phaseNo' - 1) :
              Cardinality(ToolTrafficOf(Deref(heap', purgedMessages'), q))
                <= Cardinality(ToolTrafficOf(View, q)) ]_vars

\* C15: the context view is changed other than by appending only by the purge
\* step, which is taken once, after the loop was left without an error, and is
\* followed by the validation and the return. A step that rejects run leaves the
\* context view and its messages as they are; until the purge step, and after a
\* rejection, the context view holds everything the phase appended, as
\* appended (nothing, when run threw before it appended its prompts).
C15_PurgeOnlyOnNormalEnd ==
    /\ []((pc \in {"loop", "stream", "tools", "executing", "check", "purge"}
             \/ (pc = "idle" /\ outcome.status = "rejected" /\ ~PrologueFailed)) =>
            Slice(purgedMessages, startPurgedMessageCount)
              = Slice(messages, startMessageCount))
    /\ [](PrologueFailed =>
            /\ \A i \in 1..Len(Record) : Record[i].phase # phaseNo
            /\ \A i \in 1..Len(View) : View[i].phase # phaseNo)
    /\ [][ /\ ~Extends(purgedMessages', purgedMessages) =>
                (pc = "purge" /\ pc' = "validate")
           /\ pc' = "purge" => (pc \in {"check", "loop"} /\ outcome'.status = "none")
           /\ pc \in {"purge", "validate", "phaseEnd"} =>
                (pc' \in {"validate", "phaseEnd", "idle"} /\ pc' # pc
                   /\ outcome'.status # "rejected")
           /\ (pc # "idle" /\ pc' = "idle" /\ outcome'.status = "rejected") =>
                /\ purgedMessages' = purgedMessages
                /\ Deref(heap', purgedMessages') = View
          ]_vars

\* A phase that declares all three directives was rejected for a stream
\* failure in its second round: the context view still holds the messages of
\* the first phase and the tool messages of this one.
C15_Witness ==
    /\ pc = "idle"
    /\ outcome.status = "rejected"
    /\ outcome.text = ChatFailed
    /\ outcome.n = 2
    /\ phaseNo = 2
    /\ phase.purge = Purges
    /\ View[1].role = "system"
    /\ \E i \in 1..Len(View) : View[i].role = "tool" /\ View[i].phase = 2
    /\ \E i \in 1..Len(View) : View[i].tool_calls # <<>> /\ View[i].phase = 2

\* C16: the step that takes a ToolCall whose function name is not in the
\* active tool set rejects run with an error that contains "Unknown tool";
\* it appends no message, executes no tool (the position in the round's
\* ToolCalls does not advance) and makes no model call, and run is over.
C16_UnknownToolFatal ==
    [][ (pc = "tools" /\ toolCalls[toolIdx].name \notin ActiveTools(phase)) =>
          /\ pc' = "idle"
          /\ outcome'.status = "rejected"
          /\ outcome'.cause = "Unknown tool"
          /\ heap' = heap
          /\ messages' = messages
          /\ purgedMessages' = purgedMessages
          /\ toolIdx' = toolIdx
          /\ modelCalls' = modelCalls
      ]_vars

\* run was rejected for the first of two ToolCalls, which names an unknown
\* tool: the record ends with the round's assistant message, and the second
\* ToolCall, of a known tool, has no result.
C16_Witness ==
    /\ pc = "idle"
    /\ outcome.status = "rejected"
    /\ outcome.cause = "Unknown tool"
    /\ Len(toolCalls) = 2
    /\ toolIdx = 1
    /\ toolCalls[1].name = "nope"
    /\ toolCalls[2].name = "load"
    /\ Record[Len(Record)].role = "assistant"
    /\ Record[Len(Record)].tool_calls = toolCalls

\* C17: the execution of a ToolCall of a known tool never rejects run: it
\* appends one tool message, whose content is the diagnostic of a SyntaxError
\* when the arguments text is not JSON, and else the diagnostic of the failure
\* or the result; the next ToolCall of the round is taken next, and after the
\* last one the loop goes on: below the round limit its next step is the next
\* model call.
C17_ToolFailureNotRaised ==
    [][ /\ (pc = "tools" /\ toolCalls[toolIdx].name \in ActiveTools(phase)) =>
             (pc' = "executing" /\ outcome'.status # "rejected")
        /\ pc = "executing" =>
             /\ outcome'.status # "rejected"
             /\ Len(messages') = Len(messages) + 1
             /\ Len(purgedMessages') = Len(purgedMessages) + 1
             /\ LET t == heap'[messages'[Len(messages')]]
                IN  /\ t.role = "tool"
                    /\ t.tool_call_id = toolCalls[toolIdx].id
                    /\ t.content \in {ToolResultText, <<"1">>, ErrorContent("failed"),
                                      ErrorContent("SyntaxError"),
                                      ErrorContent("TypeError")}
                    /\ ~JSONParses(toolCalls[toolIdx].arguments) =>
                         t.content = ErrorContent("SyntaxError")
             /\ toolIdx' = toolIdx + 1
             /\ pc' = IF toolIdx < Len(toolCalls) THEN "tools" ELSE "loop"
        /\ (pc = "loop" /\ round < maxRounds) =>
             (pc' = "stream" /\ modelCalls' = modelCalls + 1 /\ round' = round + 1)
      ]_vars

\* The second model call of a phase is in flight after a round of two
\* ToolCalls: the first left the diagnostic of a SyntaxError, the second its
\* result.
C17_Witness ==
    /\ pc = "stream"
    /\ round = 2
    /\ modelCalls = 2
    /\ Len(Record) >= 3
    /\ Record[Len(Record) - 2].role = "assistant"
    /\ Record[Len(Record) - 1].role = "tool"
    /\ Record[Len(Record) - 1].content = ErrorContent("SyntaxError")
    /\ Record[Len(Record)].role = "tool"
    /\ Record[Len(Record)].content = ToolResultText

\* C18: when a ToolCall of a known tool is taken, config.onToolCall has been
\* called once for it in this round; the step calls config.onToolResponse
\* once, and either with the diagnostic that the appended tool message quotes,
\* or with the result of execute, and then the content of the appended tool
\* message is that result if it is a string and its JSON serialization if not.
C18_ObserversOncePerCall ==
    [][ pc = "executing" =>
          /\ Cardinality({k \in 1..Len(onToolCall) :
                            onToolCall[k].index = toolIdx - 1}) = 1
          /\ Len(onToolResponse') = Len(onToolResponse) + 1
          /\ SubSeq(onToolResponse', 1, Len(onToolResponse)) = onToolResponse
          /\ LET t == heap'[messages'[Len(messages')]]
                 r == onToolResponse'[Len(onToolResponse')]
             IN  \/ /\ r.type = "string"
                    /\ t.content = <<"Error: ">> \o r.text
                 \/ t.content = IF r.type = "string" THEN r.text ELSE JSONStringify(r)
      ]_vars

\* The non-empty ids of the ToolCalls accumulated so far.
KnownIds(tcs) == {tcs[i].id : i \in {k \in 1..Len(tcs) : tcs[k] # Hole}} \ {""}

\* C19: in the calls of onToolCall of one round no id occurs twice and none is
\* empty, and the ids are those of the notified-id set. A fragment makes a call
\* only for an id that became known with this fragment, and, unless it throws,
\* for every such id. The step that begins a round empties the notified-id
\* set; the steps after the stream make no call.
C19_NotifyOncePerRound ==
    /\ [](/\ \A j, k \in 1..Len(onToolCall) :
               onToolCall[j].id = onToolCall[k].id => j = k
          /\ {onToolCall[k].id : k \in 1..Len(onToolCall)} = notifiedToolCallIds
          /\ "" \notin notifiedToolCallIds)
    /\ [][ /\ (pc = "stream" /\ chunks' = chunks + 1) =>
                LET new    == KnownIds(toolCalls') \ KnownIds(toolCalls)
                    called == {onToolCall'[k].id :
                                 k \in (Len(onToolCall) + 1)..Len(onToolCall')}
                IN  /\ Extends(onToolCall', onToolCall)
                    /\ called \subseteq new
                    /\ pc' = "stream" => called = new
                    /\ \A k \in (Len(onToolCall) + 1)..Len(onToolCall') :
                         /\ onToolCall'[k].fragment = chunks'
                         /\ toolCalls'[onToolCall'[k].index + 1].id = onToolCall'[k].id
           /\ (pc = "loop" /\ pc' = "stream") =>
                (notifiedToolCallIds' = {} /\ onToolCall' = <<>>)
           /\ pc \notin {"loop", "stream"} =>
                (onToolCall' = onToolCall
                   /\ notifiedToolCallIds' = notifiedToolCallIds)
          ]_vars

\* In the second round of a phase the call with id c0 has been notified, with
\* the first fragment, although the first round notified and executed a call
\* with the same id.
C19_Witness ==
    /\ pc = "tools"
    /\ round = 2
    /\ onToolCall = <<[index |-> 0, id |-> "c0", fragment |-> 1]>>
    /\ \E i \in 1..Len(Record) :
         /\ Record[i].role = "tool"
         /\ Record[i].phase = phaseNo
         /\ Record[i].round = 1
         /\ Record[i].tool_call_id = "c0"

\* C20: when all the fragments of a ToolCall have been accumulated, whatever
\* the pieces its arguments text was cut in, the stream is still open and the
\* slot of its index holds the id, the function name and the whole arguments
\* text, as it does when the call is accumulated from one fragment (the
\* ToolCalls of the lower indices, delivered before it, are as they were).
C20_ChunkingIndependent ==
    (stream # NoStream /\ stream.rest = <<>>) =>
      /\ pc = "stream"
      /\ toolCalls = applyDeltas(<<>>, LeadDeltas(stream.index)
                                        \o Deltas(stream.index, stream.call.id,
                                                  stream.call.name,
                                                  <<stream.call.arguments>>))
      /\ Len(toolCalls) = stream.index + 1
      /\ toolCalls[stream.index + 1] = stream.call

\* A ToolCall with the arguments {1} has been accumulated from three
\* non-empty fragments.
C20_Witness ==
    /\ stream # NoStream
    /\ stream.rest = <<>>
    /\ chunks = 3
    /\ toolCalls = <<ToolCall("c0", "load", <<"{", "1", "}">>)>>

\* C21: the validation step never rejects run, and run returns after it. For a
\* phase with a response schema and content: when the content is JSON that
\* the schema accepts (the number 1, blanks around it allowed), the last
\* message of the permanent record is an assistant message and its content
\* becomes the serialization "1"; when it is not, every message keeps its
\* text, in the record and in the context view.
C21_ValidationNeverFatal ==
    [][ /\ pc = "validate" =>
             /\ pc' = "phaseEnd"
             /\ outcome'.status # "rejected"
             /\ messages' = messages
             /\ purgedMessages' = purgedMessages
             /\ (phase.responseSchema # Absent /\ content # <<>>) =>
                  IF Trim(content) = <<"1">>
                    THEN /\ Record[Len(Record)].role = "assistant"
                         /\ heap'[messages[Len(messages)]].content = <<"1">>
                    ELSE /\ Texts(Deref(heap', messages')) = Texts(Record)
                         /\ Texts(Deref(heap', purgedMessages')) = Texts(View)
        /\ pc = "phaseEnd" => (pc' = "idle" /\ outcome'.status = "returned")
      ]_vars

\* A phase with a response schema whose content was " 1" has been validated:
\* the last assistant message now reads "1".
C21_Witness ==
    /\ pc = "phaseEnd"
    /\ phase.responseSchema = "literal1"
    /\ content = <<" ", "1">>
    /\ Record[Len(Record)].role = "assistant"
    /\ Record[Len(Record)].content = <<"1">>

\* C22: no step removes or replaces a message of the permanent record, and a
\* step leaves every message of the record as it is, but for the validation
\* step of a phase whose content its schema accepts: it rewrites the content
\* of the last message of the record, an assistant message of the current
\* phase, and no other field of it.
C22_RecordImmutable ==
    [][ /\ Extends(messages', messages)
        /\ \A i \in 1..Len(messages) :
             \/ heap'[messages[i]] = heap[messages[i]]
             \/ /\ pc = "validate"
                /\ i = Len(messages)
                /\ phase.responseSchema # Absent
                /\ Trim(content) = <<"1">>
                /\ Record[i].role = "assistant"
                /\ Record[i].phase = phaseNo
                /\ heap'[messages[i]] = [Record[i] EXCEPT !.content = <<"1">>]
      ]_vars

\* The second phase has been validated and its last assistant message
\* rewritten from "1 " to "1", while the record holds an assistant message of
\* the first phase that reads "1 ".
C22_Witness ==
    /\ pc = "phaseEnd"
    /\ phaseNo = 2
    /\ phase.responseSchema = "literal1"
    /\ content = <<"1", " ">>
    /\ Record[Len(Record)].content = <<"1">>
    /\ \E i \in 1..startMessageCount :
         Record[i].role = "assistant" /\ Record[i].content = <<"1", " ">>

\* C26: a step that rejects run from the stream for a stream failure names
\* the round and carries the cause; it appends no message, makes no model
\* call and executes no tool, and run is over.
C26_StreamFailureFatal ==
    [][ (pc = "stream" /\ pc' = "idle" /\ outcome'.cause = "stream") =>
          /\ outcome'.status = "rejected"
          /\ outcome'.text = ChatFailed
          /\ outcome'.n = round
          /\ heap' = heap
          /\ messages' = messages
          /\ purgedMessages' = purgedMessages
          /\ modelCalls' = modelCalls
          /\ onToolResponse' = onToolResponse
          /\ \A i \in 1..Len(Record) :
               ~(Record[i].phase = phaseNo /\ Record[i].round = round)
      ]_vars

\* The stream of the second round failed after a fragment with content and a
\* ToolCall: the record ends with a tool message of the first round.
C26_Witness ==
    /\ pc = "idle"
    /\ outcome.status = "rejected"
    /\ outcome.cause = "stream"
    /\ outcome.n = 2
    /\ chunks >= 1
    /\ content # <<>>
    /\ Record[Len(Record)].role = "tool"
    /\ Record[Len(Record)].round = 1

\* C25: every fatal error raised by run identifies the name of the phase and the
\* number of the round in which it occurred, and carries the cause message.
C25_ErrorNamesPhaseAndRound ==
    outcome.status = "rejected" =>
        /\ phase.name \in outcome.phases
        /\ outcome.n = round
        /\ (outcome.text = ChatFailed => outcome.cause # "")

\* The references of the record to the messages run call n created.
AppendedBy(n) == SelectSeq(messages, LAMBDA r : heap[r].phase = n)

RECURSIVE Concat(_)
Concat(ss) == IF ss = <<>> THEN <<>> ELSE Head(ss) \o Concat(Tail(ss))

\* C23 as stated: a run call that succeeds returns exactly the messages it
\* appended to the permanent record, the system message among them only in
\* the first call; onPhaseEnd is invoked once per successful call, in the step
\* that returns (after purge and validation), with the same sequence; and
\* while every run call so far has succeeded, the returned values concatenate
\* to the record.
C23_ReturnsAppendedSuffix ==
    /\ [](/\ onPhaseEnd = returned
          /\ \A i \in 1..Len(returned) :
               /\ returned[i] # <<>>
               /\ returned[i] = AppendedBy(heap[returned[i][1]].phase)
               /\ (\E j \in 1..Len(returned[i]) :
                      heap[returned[i][j]].role = "system")
                    <=> heap[returned[i][1]].phase = 1
          /\ (pc = "idle" /\ Len(returned) = phaseNo) =>
               Concat(returned) = messages)
    /\ [][ /\ (pc = "idle" /\ pc' # "idle") =>
                Extends(messages', messages)
           /\ (outcome'.status = "returned" /\ outcome.status # "returned") =>
                /\ pc = "phaseEnd"
                /\ outcome'.value = AppendedBy(phaseNo)
                /\ returned' = Append(returned, outcome'.value)
                /\ onPhaseEnd' = Append(onPhaseEnd, outcome'.value)
                /\ heap' = heap /\ messages' = messages
                /\ purgedMessages' = purgedMessages
           /\ (onPhaseEnd' # onPhaseEnd \/ returned' # returned) =>
                (outcome'.status = "returned" /\ outcome.status # "returned")
          ]_vars

\* C23 (amended): a run call that succeeds returns exactly the messages it
\* appended to the permanent record, the system message among them exactly
\* when it is the call that appended it (the call that began with an empty
\* record); onPhaseEnd is invoked once per successful call, in the step that
\* returns (after purge and validation), with the same sequence; and while
\* every run call so far has succeeded, the returned values concatenate to the
\* record.
C23_ReturnsAppended ==
    /\ [](/\ onPhaseEnd = returned
          /\ \A i \in 1..Len(returned) :
               /\ returned[i] # <<>>
               /\ returned[i] = AppendedBy(heap[returned[i][1]].phase)
               /\ (\E j \in 1..Len(returned[i]) :
                      heap[returned[i][j]].role = "system")
                    <=> returned[i][1] = messages[1]
               /\ returned[i][1] = messages[1] =>
                    heap[returned[i][1]].role = "system"
          /\ (pc = "idle" /\ Len(returned) = phaseNo) =>
               Concat(returned) = messages)
    /\ [][ /\ (pc = "idle" /\ pc' # "idle") =>
                Extends(messages', messages)
           /\ (outcome'.status = "returned" /\ outcome.status # "returned") =>
                /\ pc = "phaseEnd"
                /\ outcome'.value = AppendedBy(phaseNo)
                /\ outcome'.value = Slice(messages, startMessageCount)
                /\ returned' = Append(returned, outcome'.value)
                /\ onPhaseEnd' = Append(onPhaseEnd, outcome'.value)
                /\ heap' = heap /\ messages' = messages
                /\ purgedMessages' = purgedMessages
           /\ (onPhaseEnd' # onPhaseEnd \/ returned' # returned) =>
                (outcome'.status = "returned" /\ outcome.status # "returned")
          ]_vars

\* The first run call threw on its response schema; the second has succeeded
\* after two rounds and returned the system message, its user message, two
\* assistant messages and a tool message, which are the whole record.
C23_Witness ==
    /\ pc = "idle"
    /\ phaseNo = 2
    /\ Len(returned) = 1
    /\ Len(returned[1]) = 5
    /\ heap[returned[1][1]].role = "system"
    /\ heap[returned[1][1]].phase = 2
    /\ heap[returned[1][2]].role = "user"
    /\ heap[returned[1][4]].role = "tool"
    /\ onPhaseEnd = returned
    /\ Concat(returned) = messages

\* C24: when a run call driven by runMultiPhase is rejected, runMultiPhase starts
\* no later phase and rejects itself; onPhaseEnd has not been and is not invoked
\* for the failing phase; and the messages appended so far, those of the
\* failing phase included, stay in the permanent record as they are.
C24_FailureStopsRun ==
    /\ [](/\ runMultiPhase.status = "rejected" =>
               (pc = "idle" /\ outcome.status = "rejected")
          /\ runMultiPhase.status = "returned" =>
               (Len(onPhaseEnd) = phaseNo /\ outcome.status = "returned")
          /\ (pc = "idle" /\ outcome.status = "rejected") =>
               /\ (AppendedBy(phaseNo) = <<>>) <=> PrologueFailed
               /\ \A i \in 1..Len(onPhaseEnd) :
                    heap[onPhaseEnd[i][1]].phase # phaseNo)
    /\ [][ /\ (outcome'.status = "rejected" /\ outcome.status # "rejected") =>
                /\ messages' = messages
                /\ Deref(heap', messages') = Record
                /\ onPhaseEnd' = onPhaseEnd
           /\ (runMultiPhase.status # "none" /\ pc = "idle"
                 /\ outcome.status = "rejected") =>
                /\ pc' = "idle" /\ phaseNo' = phaseNo
                /\ outcome' = outcome
                /\ messages' = messages
                /\ Deref(heap', messages') = Record
                /\ onPhaseEnd' = onPhaseEnd
          ]_vars

\* runMultiPhase has rejected in the second of its three phases, whose second
\* round failed: onPhaseEnd was invoked for the first phase only, and the
\* record ends with the user message, the assistant message and the two tool
\* messages of the second.
C24_Witness ==
    /\ runMultiPhase.status = "rejected"
    /\ phaseNo = 2
    /\ PhaseLimit(env) = 3
    /\ outcome.n = 2
    /\ Len(onPhaseEnd) = 1
    /\ Len(AppendedBy(2)) = 4
    /\ Record[Len(Record)].role = "tool"
    /\ Record[Len(Record)].phase = 2

\* The user messages of the permanent record.
UserMessages == SelectSeq(Record, LAMBDA m : m.role = "user")

\* C28 as stated: runMultiPhase runs the phases one after the other: a phase
\* appends its user message only when the runner is idle and the phase before
\* it has returned; the user messages of the record are those of the phases
\* started, one each, in phase order; and when runMultiPhase returns, every
\* phase of the list has returned and the value is the whole permanent record.
C28_PhasesSequential ==
    /\ [](/\ runMultiPhase.status # "none" => Len(UserMessages) = phaseNo
          /\ \A i \in 1..Len(UserMessages) : UserMessages[i].phase = i
          /\ runMultiPhase.status = "returned" =>
               /\ phaseNo = PhaseLimit(env)
               /\ Len(returned) = phaseNo
               /\ runMultiPhase.value = messages)
    /\ [][(/\ runMultiPhase.status # "none"
           /\ Len(messages') > Len(messages)
           /\ heap'[messages'[Len(messages')]].role = "user") =>
             /\ runMultiPhase.status = "running"
             /\ pc = "idle"
             /\ Len(returned) = phaseNo
             /\ phaseNo > 0 => outcome.status = "returned"
             /\ phaseNo' = phaseNo + 1
          ]_vars

\* C28 (amended): runMultiPhase runs the phases one after the other: a phase
\* appends its user message only when the runner is idle and the phase before
\* it has returned; the user messages of the record are in phase order, one
\* for each phase started except a phase that threw before appending anything
\* (which is then the last one started); and when runMultiPhase returns, every
\* phase of the list has returned and the value is the whole permanent record.
C28_PhasesSequentialOnceAppended ==
    /\ [](/\ \A i, j \in 1..Len(UserMessages) :
               i < j => UserMessages[i].phase < UserMessages[j].phase
          /\ runMultiPhase.status # "none" =>
               /\ Len(UserMessages) = IF PrologueFailed THEN phaseNo - 1 ELSE phaseNo
               /\ \A i \in 1..Len(UserMessages) : UserMessages[i].phase = i
          /\ runMultiPhase.status = "returned" =>
               /\ phaseNo = PhaseLimit(env)
               /\ Len(returned) = phaseNo
               /\ Len(UserMessages) = phaseNo
               /\ runMultiPhase.value = messages)
    /\ [][(/\ runMultiPhase.status # "none"
           /\ Len(messages') > Len(messages)
           /\ heap'[messages'[Len(messages')]].role = "user") =>
             /\ runMultiPhase.status = "running"
             /\ pc = "idle"
             /\ Len(returned) = phaseNo
             /\ phaseNo > 0 => outcome.status = "returned"
             /\ phaseNo' = phaseNo + 1
          ]_vars

\* runMultiPhase has returned after three phases with tool rounds: its value
\* is the record, whose three user messages are those of phases 1, 2 and 3.
C28_Witness ==
    /\ runMultiPhase.status = "returned"
    /\ phaseNo = 3
    /\ Len(UserMessages) = 3
    /\ runMultiPhase.value = messages
    /\ Len(messages) = 16
    /\ Record[2].role = "user" /\ Record[7].role = "user" /\ Record[12].role = "user"

\* The tool messages the current round has appended to the permanent record.
RoundToolMessages ==
    SelectSeq(Record, LAMBDA m : m.role = "tool" /\ m.phase = phaseNo
                                   /\ m.round = round)

\* C27: the tool calls of a round are executed one at a time, in ToolCall
\* order: at most one execution is in flight, and none while a model call is;
\* the execution of ToolCall i starts only when none is in flight and the
\* tool messages of ToolCalls 1..i-1 of the round, and no others, have been
\* appended; and it ends by appending the tool message of ToolCall i.
C27_ToolsOneAtATime ==
    /\ [](/\ Cardinality(executing) <= 1
          /\ executing # {} => (pc = "executing" /\ executing = {toolIdx})
          /\ pc \in {"stream", "loop", "idle"} => executing = {})
    /\ [][ /\ (executing' # executing /\ executing' # {}) =>
                /\ executing = {}
                /\ pc = "tools"
                /\ executing' = {toolIdx}
                /\ toolIdx \in 1..Len(toolCalls)
                /\ Len(RoundToolMessages) = toolIdx - 1
                /\ \A t \in 1..(toolIdx - 1) :
                     RoundToolMessages[t].tool_call_id = toolCalls[t].id
                /\ messages' = messages
           /\ (executing # {} /\ executing' # executing) =>
                /\ executing' = {}
                /\ IsResultOf(heap', messages', purgedMessages', toolCalls[toolIdx])
                /\ toolIdx' = toolIdx + 1
           /\ (pc # "stream" /\ pc' = "stream") => executing = {}
          ]_vars

\* The second ToolCall of a round is being executed: the tool message of the
\* first is the last message of the record.
C27_Witness ==
    /\ pc = "executing"
    /\ executing = {2}
    /\ Len(toolCalls) = 2
    /\ Len(RoundToolMessages) = 1
    /\ Record[Len(Record)].role = "tool"
    /\ Record[Len(Record)].tool_call_id = toolCalls[1].id
    /\ toolCalls[2].id # toolCalls[1].id

\* C29: in a phase with a tool set of its own, that set, and else the
\* system-wide set, is what every model call of the phase is given as tool
\* definitions and what a ToolCall is looked up in: a ToolCall whose name is in
\* it is executed, any other rejects run as an unknown tool, so a tool of the
\* system-wide set only is unknown in a phase that has tools of its own.
C29_ActiveToolSet ==
    /\ []((pc # "idle" /\ modelCalls > 0) =>
            /\ request.made
            /\ request.tools = IF phase.tools # {} THEN phase.tools
                               ELSE ConfigTools)
    /\ [][pc = "tools" =>
            IF toolCalls[toolIdx].name
                 \in (IF phase.tools # {} THEN phase.tools ELSE ConfigTools)
              THEN pc' = "executing" /\ outcome'.status = "none"
              ELSE /\ pc' = "idle"
                   /\ outcome'.status = "rejected"
                   /\ outcome'.cause = "Unknown tool"
                   /\ toolCalls[toolIdx].name \in ConfigTools => phase.tools # {}
          ]_vars

\* A phase whose only tool is "nope" was rejected because the model requested
\* the system-wide tool "load", after the phase's own tool had been executed
\* for the first ToolCall of the round.
C29_Witness ==
    /\ pc = "idle"
    /\ outcome.status = "rejected"
    /\ outcome.cause = "Unknown tool"
    /\ phase.tools = {"nope"}
    /\ request.tools = {"nope"}
    /\ Len(toolCalls) = 2
    /\ toolCalls[1].name = "nope"
    /\ toolCalls[2].name = "load"
    /\ toolCalls[2].name \in ConfigTools
    /\ Record[Len(Record)].role = "tool"
    /\ Record[Len(Record)].name = "nope"

\* The messages appended for the ToolCall that executeToolWithRetry was last
\* called for.
CallMessages == IF call.last = "none" THEN <<>> ELSE Slice(Record, call.start)

\* C30: with bounded local retry (maxRetries = 2) a ToolCall invokes execute at
\* most 3 times. When execute has thrown 3 times, the call has left exactly 3
\* tool messages, 2 retry diagnostics and the terminal error, and the round
\* goes on. When execute has returned, after throwing j <= 2 times, the call
\* has left the j diagnostics and one result message, and it is over: execute
\* is not invoked again for it.
C30_BoundedRetry ==
    /\ call.invoked <= maxRetries + 1
    /\ Len(CallMessages) <= maxRetries + 1
    /\ \A k \in 1..Len(CallMessages) :
         /\ CallMessages[k].role = "tool"
         /\ CallMessages[k].name = toolCalls[IF pc # "executing" /\ call.last # "none"
                                               THEN toolIdx - 1 ELSE toolIdx].name
    /\ (call.last = "throw" /\ attempt = 0) =>
         /\ call.invoked = maxRetries + 1
         /\ Len(CallMessages) = maxRetries + 1
         /\ \A k \in 1..maxRetries :
              CallMessages[k].content = <<"Error: ">> \o retryMsg(k - 1, "failed")
         /\ CallMessages[maxRetries + 1].content = <<"Error: ">> \o errorMsg("failed")
         /\ pc = IF toolIdx > Len(toolCalls) THEN "loop" ELSE "tools"
    /\ call.last \in {"string", "number", "cyclic"} =>
         /\ attempt = 0
         /\ Len(CallMessages) = call.invoked
         /\ \A k \in 1..(call.invoked - 1) :
              CallMessages[k].content = <<"Error: ">> \o retryMsg(k - 1, "failed")
         /\ CallMessages[call.invoked].content = ResultContent(ToolValue(call.last))
         /\ pc = IF toolIdx > Len(toolCalls) THEN "loop" ELSE "tools"

\* C32: with bounded local retry, the step that takes a ToolCall whose function
\* name is not in the tool registry rejects run: it appends no message and the
\* call is not attempted again.
C32_RetryUnknownToolFatal ==
    [][ (pc = "tools" /\ ~findToolByName(toolCalls[toolIdx].name)) =>
          /\ outcome'.status = "rejected"
          /\ pc' = "idle"
          /\ messages' = messages
          /\ purgedMessages' = purgedMessages
          /\ attempt' = attempt
      ]_vars

\* The content deltas of the fragments the current stream has delivered, in
\* arrival order, concatenated.
RoundContent == Concat([i \in 1..Len(received) |-> received[i].content])

\* C33: the assistant message appended when the stream of a round has ended has
\* as content the concatenation of the content deltas of this round's
\* fragments, in arrival order, and nothing else: no content of an earlier
\* round and no reasoning text.
C33_ContentOfRoundOnly ==
    [][ (pc = "stream" /\ Len(messages') = Len(messages) + 1) =>
          LET a == heap'[messages'[Len(messages')]]
          IN  /\ a.role = "assistant"
              /\ a.content = RoundContent
              /\ \A k \in 1..Len(a.content) : a.content[k] # "t"
      ]_vars

\* The non-empty deltas of one kind among the fragments of the current
\* stream, in arrival order.
DeltasOf(kind) ==
    SelectSeq([i \in 1..Len(received) |-> received[i][kind]],
              LAMBDA d : d # <<>>)

\* C35: the calls of onContentChunk of a round are the content deltas of the
\* round's fragments, one call each, in arrival order, and those of
\* onThinkingChunk its reasoning deltas; a fragment makes at most one call of
\* each; and no message, of the permanent record or of the context view,
\* holds reasoning text.
C35_ChunksForwardedOnce ==
    /\ [](/\ onContentChunk = DeltasOf("content")
          /\ onThinkingChunk = DeltasOf("reasoning")
          /\ \A i \in 1..Len(heap) : \A k \in 1..Len(heap[i].content) :
               heap[i].content[k] # "t")
    /\ [][ Len(received') = Len(received) + 1 =>
            LET chunk == received'[Len(received')]
            IN  /\ onContentChunk' = IF chunk.content # <<>>
                                       THEN Append(onContentChunk, chunk.content)
                                       ELSE onContentChunk
                /\ onThinkingChunk' = IF chunk.reasoning # <<>>
                                        THEN Append(onThinkingChunk, chunk.reasoning)
                                        ELSE onThinkingChunk
          ]_vars

\* The stream of a round delivered a fragment with reasoning and content and
\* then a fragment with content, and the assistant message has been appended:
\* one call of onThinkingChunk, two of onContentChunk.
C35_Witness ==
    /\ pc = "check"
    /\ Len(received) = 2
    /\ received[1].reasoning = <<"t">>
    /\ onThinkingChunk = << <<"t">> >>
    /\ onContentChunk = << <<"1">>, <<" ">> >>
    /\ Record[Len(Record)].role = "assistant"
    /\ Record[Len(Record)].content = <<"1", " ">>

\* The tool-call deltas of the fragments of the current stream, in arrival
\* order, and those among them of one index.
ReceivedDeltas == Concat([i \in 1..Len(received) |-> received[i].tool_calls])

DeltasOfIndex(i) == SelectSeq(ReceivedDeltas, LAMBDA d : d.index = i)

\* The last non-empty value of a field among deltas, "" if there is none.
LastGiven(ds, field) ==
    LET given == SelectSeq(ds, LAMBDA d : d[field] # "")
    IN  IF given = <<>> THEN "" ELSE given[Len(given)][field]

\* C34: a fragment with tool-call deltas never fails the round, whatever the
\* order in which the indices arrive, and after it the ToolCalls are those of
\* the indices received so far, ordered by index, each with the id and the
\* name its own deltas gave it and the concatenation of its own arguments
\* pieces.
C34_AccumulatedByIndex ==
    [][ (pc = "stream" /\ Len(received') = Len(received) + 1
           /\ received'[Len(received')].tool_calls # <<>>) =>
          /\ outcome'.status # "rejected"
          /\ pc' = "stream"
          /\ \A i \in 0..1 :
               DeltasOfIndex(i)' # <<>> =>
                 /\ Len(toolCalls') > i
                 /\ toolCalls'[i + 1] =
                      ToolCall(LastGiven(DeltasOfIndex(i)', "id"),
                               LastGiven(DeltasOfIndex(i)', "name"),
                               Concat([k \in 1..Len(DeltasOfIndex(i)') |->
                                         DeltasOfIndex(i)'[k].arguments]))
      ]_vars

\* The context-view message v corresponds to the record message m: the same
\* message, but for tool_calls, which v may lack.
Corresponds(v, m) ==
    /\ v.role = m.role
    /\ v.content = m.content
    /\ v.tool_call_id = m.tool_call_id
    /\ v.name = m.name
    /\ v.phase = m.phase /\ v.round = m.round
    /\ v.tool_calls \in {m.tool_calls, <<>>}

\* The messages of v correspond, in order, to distinct messages of r.
RECURSIVE IsSubsequence(_, _)
IsSubsequence(v, r) ==
    IF v = <<>> THEN TRUE
    ELSE IF r = <<>> THEN FALSE
    ELSE IF Corresponds(Head(v), Head(r)) THEN IsSubsequence(Tail(v), Tail(r))
    ELSE IsSubsequence(v, Tail(r))

\* C36: in every state the context view is an order-preserving subsequence of
\* the permanent record: its messages correspond, in order, to distinct
\* messages of the record, with the same role and content (also once
\* validation has rewritten a content) and at most without their tool_calls.
C36_ViewSubsequenceOfRecord == IsSubsequence(View, Record)

\* A phase with the tool-calls directive and a schema has ended after a tool
\* round: the content of its last message was rewritten, in the record and in
\* the view, and the view has lost the tool message and the tool_calls.
C36_Witness ==
    /\ pc = "idle"
    /\ outcome.status = "returned"
    /\ "tool-calls" \in phase.purge
    /\ content = <<"1", " ">>
    /\ Record[Len(Record)].content = <<"1">>
    /\ View[Len(View)].content = <<"1">>
    /\ Len(View) < Len(Record)
    /\ \E i \in 1..Len(Record) : Record[i].tool_calls # <<>>
    /\ \A i \in 1..Len(View) : View[i].tool_calls = <<>> /\ View[i].role # "tool"

\* C38: a tool-call purge applied to a context view it has just been applied
\* to leaves the view as it is, and the purge step of a phase that declares
\* all-tool-calls leaves the same view whether or not the phase declares
\* tool-calls as well.
C38_PurgesIdempotent ==
    [][ /\ (pc = "purgedFromPhase" /\ pc' = "purgedFromPhase") =>
             (purgedMessages' = purgedMessages /\ Deref(heap', purgedMessages') = View)
        /\ (pc = "purgedAll" /\ pc' = "purgedAll") =>
             (purgedMessages' = purgedMessages /\ Deref(heap', purgedMessages') = View)
        /\ (pc = "purge" /\ pc' = "validate" /\ Includes(phase, "all-tool-calls")) =>
             \A other \in {phase.purge \ {"tool-calls"}, phase.purge \cup {"tool-calls"}} :
               LET p == ApplyPurge(heap, purgedMessages,
                                   [phase EXCEPT !.purge = other],
                                   startPurgedMessageCount)
               IN  Deref(heap', purgedMessages') = Deref(p.heap, p.purgedMessages)
      ]_vars

\* The purge step of a phase that declares tool-calls and all-tool-calls was
\* taken on a view with tool rounds before and in the phase: no tool message
\* and no tool_calls are left.
C38_Witness ==
    /\ env = "purge"
    /\ pc = "validate"
    /\ phase.purge = {"tool-calls", "all-tool-calls"}
    /\ startPurgedMessageCount = 3
    /\ Len(Record) = 6
    /\ Record[2].role = "tool" /\ Record[6].role = "tool"
    /\ Len(View) = 3
    /\ \A i \in 1..Len(View) : View[i].role # "tool" /\ View[i].tool_calls = <<>>

\* C39: whenever the round loop of a phase has ended normally with non-empty
\* accumulated content, the last message of the permanent record is an
\* assistant message of this phase without ToolCalls; so the validation step
\* of a phase with a response schema whose content parses and is accepted
\* rewrites the content of that message.
C39_ValidationRewritesLast ==
    /\ [](env # "purge" /\ pc \in {"purge", "validate"} /\ content # <<>> =>
            /\ Len(Record) > 0
            /\ Record[Len(Record)].role = "assistant"
            /\ Record[Len(Record)].phase = phaseNo
            /\ Record[Len(Record)].tool_calls = <<>>)
    /\ [][ (/\ pc = "validate" /\ pc' = "phaseEnd"
            /\ phase.responseSchema # Absent /\ content # <<>>
            /\ JSONParses(content)
            /\ SchemaAccepts(phase.responseSchema, content)) =>
             /\ heap[messages[Len(messages)]].role = "assistant"
             /\ heap' = [heap EXCEPT ![messages[Len(messages)]].content =
                                        JSONCanonical(content)]
          ]_vars

\* A phase with a response schema has ended after a tool round and a round
\* that streamed an accepted response: the last message of the record holds
\* the canonical text, which differs from what was streamed.
C39_Witness ==
    /\ pc = "phaseEnd"
    /\ phase.responseSchema # Absent
    /\ content # <<>>
    /\ JSONParses(content)
    /\ SchemaAccepts(phase.responseSchema, content)
    /\ Len(Record) >= 2
    /\ Record[Len(Record) - 1].role = "tool"
    /\ Record[Len(Record)].role = "assistant"
    /\ Record[Len(Record)].content = JSONCanonical(content)
    /\ JSONCanonical(content) # content

\* Message j of v is the result of ToolCall c of the assistant message i: a
\* tool message of the same round of the same run call, with the id of c.
ResultOf(v, i, c, j) ==
    /\ v[j].role = "tool"
    /\ v[j].tool_call_id = c.id
    /\ v[j].phase = v[i].phase
    /\ v[j].round = v[i].round

\* The chat protocol's conditions on a message list.
WellFormed(v) ==
    /\ Len(v) > 0
    /\ v[1].role \in {"system", "user"}
    /\ \A j \in 1..Len(v) : v[j].role = "tool" =>
         \E i \in 1..(j - 1) :
           /\ v[i].role = "assistant"
           /\ \E k \in DOMAIN v[i].tool_calls :
                ResultOf(v, i, v[i].tool_calls[k], j)
    /\ \A i \in 1..Len(v) : v[i].role = "assistant" =>
         \A k \in DOMAIN v[i].tool_calls :
           Cardinality({j \in (i + 1)..Len(v) :
                          ResultOf(v, i, v[i].tool_calls[k], j)}) = 1

\* C37: in a runMultiPhase execution, whatever the phases' purge directives,
\* the message list handed to a model call starts with the system message or
\* a user message, every tool message in it comes after an assistant message
\* whose ToolCalls include its tool_call_id, and every ToolCall of an
\* assistant message in it has exactly one tool message after it.
C37_ModelCallWellFormed ==
    (runMultiPhase = Driving /\ pc = "stream") => WellFormed(View)

\* The resolved path of the call lies outside the base directory: the
\* segments of the base directory are not a prefix of its segments.
OutsideBase ==
    LET r == resolve(loadFile.basePath, loadFile.path)
        b == resolve(loadFile.basePath, <<>>)
    IN  ~(Len(r) >= Len(b) /\ SubSeq(r, 1, Len(b)) = b)

\* The resolved path lies in the base directory and one of its segments below
\* the base directory, a directory or the file name, starts with a dot.
DotSegment ==
    LET r == resolve(loadFile.basePath, loadFile.path)
        b == resolve(loadFile.basePath, <<>>)
    IN  /\ ~OutsideBase
        /\ \E i \in (Len(b) + 1)..Len(r) : r[i][1] = "."

AccessDenied ==
    { "Access denied: outside the agent directory",
      "Access denied: contains hidden directories" }

\* C31: load_file never reads a file whose resolved path lies outside the
\* base directory or whose path relative to the base directory has a segment
\* that starts with a dot: execute fails with an "Access denied" error and
\* readFile is not called.
C31_LoadFileConfined ==
    (env = "load" /\ (OutsideBase \/ DotSegment)) =>
        /\ loadFile.reads = <<>>
        /\ loadFile.status \in {"called", "rejected"}
        /\ loadFile.status = "rejected" => loadFile.error \in AccessDenied

\* execute has failed for ./a/.a, a file in a directory of the base directory
\* whose name starts with a dot, without a read.
C31_Witness ==
    /\ env = "load"
    /\ loadFile.path = <<".", "/", "a", "/", ".", "a">>
    /\ DotSegment
    /\ loadFile.status = "rejected"
    /\ loadFile.error \in AccessDenied
    /\ loadFile.reads = <<>>

====
